---- MODULE Spec2Model ----
(***************************************************************************)
(* A model of wapp: the composition tree of Wapp classes (Flask variant,   *)
(* wapp/core.py), its resolution into endpoint lists, db binding and       *)
(* blueprint building, and the synthesized CRUD handlers of the Flask      *)
(* variant (wapp/generic_endpoints.py, wapp/endpoint_base.py) and of the   *)
(* ASGI variant (wapp/core/asgi.py) over a transactional store.            *)
(*                                                                         *)
(* Strings that the code takes apart (URL paths, dotted names) are         *)
(* sequences of tokens: "/" is a token of its own, so rstrip("/") and      *)
(* replace("//", "/") are computed as the code computes them.              *)
(***************************************************************************)
EXTENDS Integers, Sequences, FiniteSets, TLC

VARIABLES
    cfg,            \* the declared composition (which classes the program defines)
    endpointsAttrs, \* per node: Endpoints.__dict__, an ordered list of <<name, value>>
    cached,         \* per node: Wapp._cached_endpoints
    blueprint,      \* per node: Wapp._blueprint
    nodeDb,         \* per node: Wapp.db
    clsDb,          \* per endpoint class (by identity): its db attribute
    resolveCount,   \* per node: number of classes-generating resolutions so far
    resLog,         \* per node: the lists returned by get_endpoints(fresh=True)
    pc,             \* position inside Wapp.bind
    bindArgs,       \* the arguments of the running Wapp.bind
    bindLog,        \* per completed bind: the route table handed to the app
    asgiRouter,     \* ASGI edition: the router the last build_router returned
    err,            \* the exception raised by the last operation ("" if none)
    ops,            \* number of operations started
    variant,        \* which edition serves the CRUD requests: "flask" or "asgi"
    store,          \* the committed rows of the model's table: id -> row
    nextId,         \* the next value of the autoincrement primary key
    resp,           \* the last request and its outcome
    schemas,        \* ASGI edition: the table make_crud_router was given and the
                    \* Out, Create and Update shapes it derived from it
    session,        \* the changes a session still holds once the scope of the
                    \* last request has ended, and whether a scope has ever
                    \* ended with uncommitted changes in it
    created,        \* history: id -> the body its create request sent, for the
                    \* records no later update or delete request has named
    djModels,       \* Django edition: the Models container of the root Wapp
    djPatterns,     \* Django edition: what the last Wapp.urlpatterns returned
    flaskPath,      \* the Flask-style pattern given to flask_to_fastapi_path
    fastapiPath,    \* its translation, and what _parse_path_params reads in it
    outDir,         \* exporter: the files of the --out directory and their text
    exportRun,      \* exporter: the last run of main, its arguments and outcome
    environ,        \* lifespan: AUTO_MIGRATE, AUTO_EXPORT and whether alembic.ini
                    \* is there, as found at startup
    lifespan,       \* lifespan_with_subprocess: its position and the commands
                    \* it has run, each with its outcome
    openapi,        \* exporter: the operations of the OpenAPI document, in the
                    \* order of its paths and methods
    emitted         \* exporter: per run on that document, what build_facade and
                    \* build_models emitted

resolveVars == <<cfg, endpointsAttrs, cached, blueprint, nodeDb, clsDb,
                 resolveCount, resLog, pc, bindArgs, bindLog, asgiRouter, err, ops>>

crudVars == <<variant, store, nextId, resp, schemas, session, created>>

djangoVars == <<djModels, djPatterns>>

pathVars == <<flaskPath, fastapiPath>>

exportVars == <<outDir, exportRun>>

lifespanVars == <<environ, lifespan>>

facadeVars == <<openapi, emitted>>

toolVars == <<djangoVars, pathVars, exportVars, lifespanVars, facadeVars>>

vars == <<resolveVars, crudVars, toolVars>>

-----------------------------------------------------------------------------
(* Bounds of the model *)

\* operations (get_endpoints, bind_db, bind) started in one behaviour
MaxOps == 2

\* depth of the recursion over Wapps that the model follows
MaxDepth == 4

\* largest primary key the table hands out
MaxId == 2

-----------------------------------------------------------------------------
(* Generic helpers: Python dicts as insertion-ordered lists of pairs *)

Has(d, k) == \E i \in 1..Len(d) : d[i][1] = k

Lookup(d, k) == d[CHOOSE i \in 1..Len(d) : d[i][1] = k][2]

\* setattr / dict.__setitem__: replace in place, or append a new key
SetAttr(d, k, v) ==
    IF Has(d, k)
    THEN [i \in 1..Len(d) |-> IF d[i][1] = k THEN <<k, v>> ELSE d[i]]
    ELSE Append(d, <<k, v>>)

RECURSIVE SetAll(_, _)
SetAll(d, kvs) ==
    IF kvs = <<>> THEN d
    ELSE SetAll(SetAttr(d, Head(kvs)[1], Head(kvs)[2]), Tail(kvs))

RECURSIVE Flatten(_)
Flatten(ss) == IF ss = <<>> THEN <<>> ELSE Head(ss) \o Flatten(Tail(ss))

RECURSIVE JoinWith(_, _)
\* sep.join(parts)
JoinWith(parts, sep) ==
    IF parts = <<>> THEN ""
    ELSE IF Len(parts) = 1 THEN parts[1]
    ELSE parts[1] \o sep \o JoinWith(Tail(parts), sep)

-----------------------------------------------------------------------------
(* URL paths as token sequences *)

RECURSIVE RStripSlash(_)
\* str.rstrip("/")
RStripSlash(p) ==
    IF p # <<>> /\ p[Len(p)] = "/" THEN RStripSlash(SubSeq(p, 1, Len(p) - 1))
    ELSE p

RECURSIVE CollapseSlashes(_)
\* str.replace("//", "/"): non-overlapping occurrences, left to right
CollapseSlashes(p) ==
    IF Len(p) < 2 THEN p
    ELSE IF p[1] = "/" /\ p[2] = "/"
         THEN <<"/">> \o CollapseSlashes(SubSeq(p, 3, Len(p)))
         ELSE <<p[1]>> \o CollapseSlashes(Tail(p))

-----------------------------------------------------------------------------
(* Wapp.CRUD_ACTIONS: the five actions in the dict's order *)

CRUD_ACTIONS == <<"get", "list", "create", "update", "delete">>

ActionMethod(action) ==
    CASE action = "get"    -> "GET"
      [] action = "list"   -> "GET"
      [] action = "create" -> "POST"
      [] action = "update" -> "PUT"
      [] action = "delete" -> "DELETE"

\* the pattern template; "{model_slug}" is the placeholder of str.format
ActionTemplate(action) ==
    IF action \in {"list", "create"}
    THEN <<"/", "{model_slug}", "/">>
    ELSE <<"/", "{model_slug}", "/", "<int:id>">>

\* template.format(model_slug=slug); an empty slug leaves no token
FormatPattern(template, slug) ==
    Flatten([i \in 1..Len(template) |->
        IF template[i] = "{model_slug}"
        THEN (IF slug = "" THEN <<>> ELSE <<slug>>)
        ELSE <<template[i]>>])

\* str.capitalize() on the action names
Capitalize(action) ==
    CASE action = "get"    -> "Get"
      [] action = "list"   -> "List"
      [] action = "create" -> "Create"
      [] action = "update" -> "Update"
      [] action = "delete" -> "Delete"

-----------------------------------------------------------------------------
(* The classes a program declares *)

NoClass ==
    [kind |-> "none", name |-> "", module |-> <<>>, method |-> "",
     pattern |-> <<>>, isEndpoint |-> FALSE, uid |-> <<"", 0, "">>]

\* an explicit WappEndpoint subclass with its Meta.method and Meta.pattern
\* ("" and <<>> stand for None)
ExplicitClass(name, module, method, pattern) ==
    [kind |-> "explicit", name |-> name, module |-> module, method |-> method,
     pattern |-> pattern, isEndpoint |-> TRUE, uid |-> <<"", 0, name>>]

\* demo/wapp.py: HandleRequest and CreateRandomFoo
HandleRequest ==
    ExplicitClass("HandleRequest", <<"demo", "wapp">>, "PUT", <<"/", "handle", "/">>)

CreateRandomFoo ==
    ExplicitClass("CreateRandomFoo", <<"demo", "wapp">>, "GET",
                  <<"/", "foo", "/", "random", "/">>)

\* a user's own update handler, given as an override in a directive map
CustomUpdate ==
    ExplicitClass("CustomUpdate", <<"app">>, "PUT", <<"/", "foo", "/", "<int:id>">>)

\* a user's own endpoint class, declared under the attribute name foo_get
\* next to the directive _foo
CustomGet ==
    ExplicitClass("CustomGet", <<"app">>, "GET", <<"/", "foo", "/", "<int:id>">>)

\* a WappEndpoint subclass that keeps the base Meta (method and pattern None)
BareEndpoint == ExplicitClass("BareEndpoint", <<"app">>, "", <<>>)

\* values of the attributes of an Endpoints container
ValTrue      == [t |-> "true",  c |-> NoClass, d |-> <<>>, l |-> <<>>]
ValFalse     == [t |-> "false", c |-> NoClass, d |-> <<>>, l |-> <<>>]
ValNone      == [t |-> "none",  c |-> NoClass, d |-> <<>>, l |-> <<>>]
ValClass(c)  == [t |-> "cls",   c |-> c,       d |-> <<>>, l |-> <<>>]
ValDict(d)   == [t |-> "dict",  c |-> NoClass, d |-> d,    l |-> <<>>]
ValList(l)   == [t |-> "list",  c |-> NoClass, d |-> <<>>, l |-> l]

\* Python truthiness of such a value
Truthy(v) ==
    CASE v.t = "true"  -> TRUE
      [] v.t = "false" -> FALSE
      [] v.t = "none"  -> FALSE
      [] v.t = "cls"   -> TRUE
      [] v.t = "dict"  -> v.d # <<>>
      [] v.t = "list"  -> v.l # <<>>

\* a model class: meta says what its WappModel attribute is
\*   "none": no WappModel attribute     "noslug": a WappModel without slug
\*   "ok":   a WappModel with slug and name
\*   "nullslug": a WappModel whose slug is None; slug then holds the text
\*   that str.format makes of None
ModelClass(cls, module, meta, slug) ==
    [cls |-> cls, module |-> module, meta |-> meta, slug |-> slug, name |-> cls]

Foo   == ModelClass("Foo", <<"demo", "wapp">>, "ok", "foo")
Bar   == ModelClass("Bar", <<"demo", "wapp">>, "ok", "bar")
Baz   == ModelClass("Baz", <<"app">>, "ok", "baz")
Plain == ModelClass("Plain", <<"app">>, "none", "")

\* model classes whose metadata gives no usable slug
NoSlugModel    == ModelClass("Draft", <<"app">>, "noslug", "")
EmptySlugModel == ModelClass("Blank", <<"app">>, "ok", "")
NoneSlugModel  == ModelClass("Void", <<"app">>, "nullslug", "None")

\* two model classes of the same __name__, declared in two modules
UsersItem == ModelClass("Item", <<"users", "models">>, "ok", "user-items")
ShopItem  == ModelClass("Item", <<"shop", "models">>, "ok", "shop-items")

\* the identifiers that occur as attribute names
Identifiers == {"foo", "bar", "baz", "a", "b", "c", "zzz", "plain", "handle",
                "create_random_foo", "bare", "child", "leaf", "left", "right",
                "demo", "user_item", "shop_item", "draft", "blank", "void",
                "with", "without"}

\* name.startswith('_') and name[1:]
StartsWithUnderscore(name) == \E m \in Identifiers : name = "_" \o m
StripUnderscore(name) == CHOOSE m \in Identifiers : name = "_" \o m

\* a Wapp subclass as declared: its Models, Endpoints and Wapps containers
NodeDecl(models, endpoints, wapps) ==
    [models |-> models, endpoints |-> endpoints, wapps |-> wapps]

\* the directive map of the claims: list disabled, get None, create True,
\* update overridden by a class, delete absent
DirectiveMap ==
    ValDict(<< <<"list", ValFalse>>, <<"get", ValNone>>, <<"create", ValTrue>>,
               <<"update", ValClass(CustomUpdate)>> >>)

\* The declared compositions. Each maps the class name of a Wapp subclass to
\* its declaration; "Main" is the class that is bound.
Configs ==
    [demo |->
        [Main |-> NodeDecl(<<>>, <<>>, << <<"demo", "DemoWapp">> >>),
         DemoWapp |-> NodeDecl(
            << <<"foo", Foo>>, <<"bar", Bar>> >>,
            << <<"handle", ValClass(HandleRequest)>>,
               <<"create_random_foo", ValClass(CreateRandomFoo)>>,
               <<"_foo", ValTrue>>,
               <<"_bar", ValList(<<"list", "get">>)>> >>,
            <<>>)],
     nested |->
        [Main |-> NodeDecl(<< <<"a", Foo>> >>, << <<"_a", ValTrue>> >>,
                           << <<"child", "Child">> >>),
         Child |-> NodeDecl(<< <<"b", Bar>> >>, << <<"_b", ValTrue>> >>,
                            << <<"leaf", "Leaf">> >>),
         Leaf |-> NodeDecl(<< <<"c", Baz>> >>, << <<"_c", ValTrue>> >>, <<>>)],
     map |->
        [Main |-> NodeDecl(<< <<"foo", Foo>> >>, << <<"_foo", DirectiveMap>> >>,
                           <<>>)],
     shared |->
        [Main |-> NodeDecl(<<>>, <<>>,
                           << <<"left", "Left">>, <<"right", "Right">> >>),
         Left |-> NodeDecl(<< <<"foo", Foo>> >>, << <<"_foo", ValTrue>> >>, <<>>),
         Right |-> NodeDecl(<< <<"foo", Foo>> >>, << <<"_foo", ValTrue>> >>, <<>>)],
     samename |->
        [Main |-> NodeDecl(
            << <<"user_item", UsersItem>>, <<"shop_item", ShopItem>> >>,
            << <<"_user_item", ValTrue>>, <<"_shop_item", ValTrue>> >>,
            <<>>)],
     noslug |->
        [Main |-> NodeDecl(<< <<"foo", Foo>>, <<"draft", NoSlugModel>> >>,
                           << <<"_foo", ValTrue>>, <<"_draft", ValTrue>> >>, <<>>)],
     emptyslug |->
        [Main |-> NodeDecl(<< <<"blank", EmptySlugModel>> >>,
                           << <<"_blank", ValTrue>> >>, <<>>)],
     noneslug |->
        [Main |-> NodeDecl(<< <<"void", NoneSlugModel>> >>,
                           << <<"_void", ValTrue>> >>, <<>>)],
     unknown |->
        [Main |-> NodeDecl(<<>>, <<>>,
                           << <<"with", "WithUnknown">>, <<"without", "Without">> >>),
         WithUnknown |-> NodeDecl(
            << <<"foo", Foo>> >>,
            << <<"handle", ValClass(HandleRequest)>>,
               <<"_zzz", ValTrue>>,
               <<"_foo", ValTrue>> >>,
            <<>>),
         Without |-> NodeDecl(
            << <<"foo", Foo>> >>,
            << <<"handle", ValClass(HandleRequest)>>,
               <<"_foo", ValTrue>> >>,
            <<>>)],
     selfchild |->
        [Main |-> NodeDecl(<< <<"foo", Foo>> >>, << <<"_foo", ValTrue>> >>,
                           << <<"me", "Main">> >>)],
     mutual |->
        [Main |-> NodeDecl(<< <<"foo", Foo>> >>, << <<"_foo", ValTrue>> >>,
                           << <<"peer", "Peer">> >>),
         Peer |-> NodeDecl(<< <<"bar", Bar>> >>, << <<"_bar", ValTrue>> >>,
                           << <<"back", "Main">> >>)],
     clash |->
        [Main |-> NodeDecl(<< <<"foo", Foo>> >>,
                           << <<"foo_get", ValClass(CustomGet)>>,
                              <<"_foo", ValTrue>> >>,
                           <<>>)],
     ignored |->
        [Main |-> NodeDecl(
            << <<"foo", Foo>>, <<"plain", Plain>> >>,
            << <<"bare", ValClass(BareEndpoint)>>,
               <<"_zzz", ValTrue>>,
               <<"_plain", ValTrue>>,
               <<"_foo", ValFalse>> >>,
            <<>>)]]

ConfigNames == DOMAIN Configs

Decl(n) == Configs[cfg][n]

Nodes == DOMAIN Configs[cfg]

Root == "Main"

-----------------------------------------------------------------------------
(* Wapp.get_models, Wapp.get_wapps *)

RECURSIVE ModelsWithMeta(_)
ModelsWithMeta(ms) ==
    IF ms = <<>> THEN <<>>
    ELSE (IF Head(ms)[2].meta # "none" THEN <<Head(ms)>> ELSE <<>>)
         \o ModelsWithMeta(Tail(ms))

\* the (name, model) pairs whose model is a class with a WappModel attribute
get_models(n) == ModelsWithMeta(Decl(n).models)

RECURSIVE WappsOtherThan(_, _)
WappsOtherThan(ws, n) ==
    IF ws = <<>> THEN <<>>
    ELSE (IF Head(ws)[2] # n THEN <<Head(ws)>> ELSE <<>>)
         \o WappsOtherThan(Tail(ws), n)

\* the (name, wapp) pairs of Wapps, the class itself excluded
get_wapps(n) == WappsOtherThan(Decl(n).wapps, n)

-----------------------------------------------------------------------------
(* Wapp._generate_crud_endpoint *)

\* the class type(f"{model.__name__}_{action.capitalize()}Endpoint", (base,), ...)
\* built by the k-th generating resolution of node n for attribute ep_name
GeneratedClass(n, k, ep_name, model, action) ==
    [kind |-> "gen",
     name |-> model.cls \o "_" \o Capitalize(action) \o "Endpoint",
     module |-> <<"wapp", "core">>,
     method |-> ActionMethod(action),
     pattern |-> FormatPattern(ActionTemplate(action), model.slug),
     isEndpoint |-> TRUE,
     uid |-> <<n, k, ep_name>>]

-----------------------------------------------------------------------------
(* Wapp.get_endpoints *)

RECURSIVE ExplicitEndpoints(_)
\* step 1: the attributes that are WappEndpoint subclasses, in dict order
ExplicitEndpoints(attrs) ==
    IF attrs = <<>> THEN <<>>
    ELSE (IF Head(attrs)[2].t = "cls" /\ Head(attrs)[2].c.isEndpoint
          THEN << <<Head(attrs)[1], Head(attrs)[2].c>> >> ELSE <<>>)
         \o ExplicitEndpoints(Tail(attrs))

DictGet(d, k) == IF Has(d, k) THEN Lookup(d, k) ELSE ValNone

\* what one action of a directive map contributes
MapActionEndpoints(n, k, model_name, model, value, action) ==
    LET v == DictGet(value.d, action)
        ep_name == model_name \o "_" \o action
    IN  IF v.t = "false" THEN <<>>
        ELSE IF Truthy(v) /\ v.t = "cls" /\ v.c.isEndpoint
             THEN << <<ep_name, v.c>> >>
        ELSE IF Truthy(v)
             THEN << <<ep_name, GeneratedClass(n, k, ep_name, model, action)>> >>
        ELSE <<>>

\* what one "_model" attribute contributes (step 2), for a model that is
\* declared and has a slug
DirectiveEndpoints(n, k, model_name, model, value) ==
    IF value.t = "dict"
    THEN Flatten([i \in 1..Len(CRUD_ACTIONS) |->
            MapActionEndpoints(n, k, model_name, model, value, CRUD_ACTIONS[i])])
    ELSE IF Truthy(value)
    THEN [i \in 1..Len(CRUD_ACTIONS) |->
            <<model_name \o "_" \o CRUD_ACTIONS[i],
              GeneratedClass(n, k, model_name \o "_" \o CRUD_ACTIONS[i], model,
                             CRUD_ACTIONS[i])>>]
    ELSE <<>>

\* an attribute that is a CRUD directive of a model the node declares
IsLiveDirective(n, name) ==
    /\ StartsWithUnderscore(name)
    /\ Has(get_models(n), StripUnderscore(name))

\* a resolver that rejects a directive naming no model of the node
MissingSlugOrUnknownModel(n, name) ==
    /\ StartsWithUnderscore(name)
    /\ \/ ~Has(get_models(n), StripUnderscore(name))
       \/ Lookup(get_models(n), StripUnderscore(name)).meta = "noslug"

\* not meta or not hasattr(meta, 'slug'): get_endpoints raises ValueError
MissingSlug(n, name) ==
    /\ IsLiveDirective(n, name)
    /\ Lookup(get_models(n), StripUnderscore(name)).meta = "noslug"

CrudEndpoints(n, k, attrs) ==
    Flatten([i \in 1..Len(attrs) |->
        IF IsLiveDirective(n, attrs[i][1])
        THEN DirectiveEndpoints(n, k, StripUnderscore(attrs[i][1]),
                Lookup(get_models(n), StripUnderscore(attrs[i][1])), attrs[i][2])
        ELSE <<>>])

\* the program's mutable class state, threaded through the calls of one operation;
\* raised is the exception in flight ("" if none), ret the last return value
Heap ==
    [attrs |-> endpointsAttrs, cached |-> cached, bp |-> blueprint, ndb |-> nodeDb,
     cdb |-> clsDb, count |-> resolveCount, log |-> resLog, raised |-> "",
     ret |-> <<>>]

\* the db attribute of an endpoint class; "unset" when it has none of its own
ClsDbOf(cdb, uid) == IF uid \in DOMAIN cdb THEN cdb[uid] ELSE "unset"

\* setattr(endpoint_cls, 'db', db) for every class of the list eps
SetDbAll(cdb, eps, db) ==
    LET touched == {eps[i][2].uid : i \in 1..Len(eps)}
    IN  [u \in DOMAIN cdb \cup touched |-> IF u \in touched THEN db ELSE cdb[u]]

\* the generated classes of a list carry db = cls.db of the generating node
WithGenerated(cdb, eps, db) ==
    LET made == {eps[i][2].uid : i \in {j \in 1..Len(eps) : eps[j][2].kind = "gen"}}
    IN  [u \in DOMAIN cdb \cup made |-> IF u \in made THEN db ELSE cdb[u]]

get_endpoints(h, n, fresh) ==
    IF ~fresh /\ h.cached[n].set
    THEN [h EXCEPT !.ret = h.cached[n].eps]
    ELSE IF h.attrs[n] = <<>>
    THEN [h EXCEPT !.cached[n] = [set |-> TRUE, eps |-> <<>>],
                   !.log[n] = Append(@, <<>>), !.ret = <<>>]
    ELSE IF \E i \in 1..Len(h.attrs[n]) : MissingSlug(n, h.attrs[n][i][1])
    THEN [h EXCEPT !.raised = "ValueError"]
    ELSE
        LET attrs  == h.attrs[n]
            k      == h.count[n] + 1
            crud   == CrudEndpoints(n, k, attrs)
            result == ExplicitEndpoints(attrs) \o crud
            to_set == [i \in 1..Len(crud) |-> <<crud[i][1], ValClass(crud[i][2])>>]
        IN  [h EXCEPT !.attrs[n]  = SetAll(attrs, to_set),
                      !.cached[n] = [set |-> TRUE, eps |-> result],
                      !.count[n]  = k,
                      !.cdb       = WithGenerated(h.cdb, crud, h.ndb[n]),
                      !.log[n]    = Append(@, result),
                      !.ret       = result]

-----------------------------------------------------------------------------
(* Wapp.bind_db, Wapp._generate_endpoints_recursive, Wapp._bind_db_recursive *)

RECURSIVE bind_db(_, _, _, _)
RECURSIVE bind_db_children(_, _, _, _)
bind_db(h, n, db, fuel) ==
    IF h.raised # "" THEN h
    ELSE IF fuel = 0 THEN [h EXCEPT !.raised = "RecursionError"]
    ELSE IF h.ndb[n] = db THEN h
    ELSE
        LET h1 == get_endpoints([h EXCEPT !.ndb[n] = db], n, TRUE)
        IN  IF h1.raised # "" THEN h1
            ELSE bind_db_children([h1 EXCEPT !.cdb = SetDbAll(h1.cdb, h1.ret, db)],
                                  get_wapps(n), db, fuel - 1)

bind_db_children(h, ws, db, fuel) ==
    IF ws = <<>> THEN h
    ELSE bind_db_children(bind_db(h, Head(ws)[2], db, fuel), Tail(ws), db, fuel)

RECURSIVE generate_endpoints_recursive(_, _, _)
RECURSIVE generate_children(_, _, _)
generate_endpoints_recursive(h, n, fuel) ==
    IF h.raised # "" THEN h
    ELSE IF fuel = 0 THEN [h EXCEPT !.raised = "RecursionError"]
    ELSE generate_children(get_endpoints(h, n, TRUE), get_wapps(n), fuel - 1)

generate_children(h, ws, fuel) ==
    IF ws = <<>> \/ h.raised # "" THEN h
    ELSE generate_children(generate_endpoints_recursive(h, Head(ws)[2], fuel),
                           Tail(ws), fuel)

\* a binder that stops at the bound class and leaves the nested Wapps alone
bind_db_root_only(h, n, db, fuel) ==
    LET h1 == get_endpoints([h EXCEPT !.ndb[n] = db], n, FALSE)
    IN  IF h1.raised # "" THEN h1
        ELSE [h1 EXCEPT !.cdb = SetDbAll(h1.cdb, h1.ret, db)]

RECURSIVE bind_db_recursive(_, _, _, _)
RECURSIVE bind_db_recursive_children(_, _, _, _)
bind_db_recursive(h, n, db, fuel) ==
    IF h.raised # "" THEN h
    ELSE IF fuel = 0 THEN [h EXCEPT !.raised = "RecursionError"]
    ELSE
        LET h1 == get_endpoints([h EXCEPT !.ndb[n] = db], n, FALSE)
        IN  IF h1.raised # "" THEN h1
            ELSE bind_db_recursive_children(
                    [h1 EXCEPT !.cdb = SetDbAll(h1.cdb, h1.ret, db)],
                    get_wapps(n), db, fuel - 1)

bind_db_recursive_children(h, ws, db, fuel) ==
    IF ws = <<>> THEN h
    ELSE bind_db_recursive_children(bind_db_recursive(h, Head(ws)[2], db, fuel),
                                    Tail(ws), db, fuel)

-----------------------------------------------------------------------------
(* Wapp._build_blueprint *)

\* f"{bp.name}_{module}__{qualname}".replace(".", "_")
EndpointName(bp_name, c) ==
    bp_name \o "_" \o JoinWith(c.module, "_") \o "__" \o c.name

\* one bp.add_url_rule of node n, whose blueprint is nested under the
\* blueprints named in chain
Route(n, chain, prefixes, full_prefix, ep) ==
    [owner    |-> n,
     prefixes |-> prefixes,
     attr     |-> ep[1],
     target   |-> ep[2].uid,
     method   |-> ep[2].method,
     rule     |-> ep[2].pattern,
     endpoint |-> EndpointName(n, ep[2]),
     bp       |-> chain,
     api_path |-> CollapseSlashes(RStripSlash(full_prefix) \o ep[2].pattern)]

RECURSIVE OwnRoutes(_, _, _, _, _)
\* the rules of the endpoints that have a Meta.pattern and a Meta.method
OwnRoutes(n, chain, prefixes, full_prefix, eps) ==
    IF eps = <<>> THEN <<>>
    ELSE (IF Head(eps)[2].pattern # <<>> /\ Head(eps)[2].method # ""
          THEN <<Route(n, chain, prefixes, full_prefix, Head(eps))>> ELSE <<>>)
         \o OwnRoutes(n, chain, prefixes, full_prefix, Tail(eps))

\* a builder that forgets the prefix of the enclosing blueprints
FullPrefixNoParent(parent_prefix, this_prefix) == CollapseSlashes(this_prefix)

\* full_prefix = (parent_prefix.rstrip("/") + this_prefix).replace("//", "/")
FullPrefix(parent_prefix, this_prefix) ==
    CollapseSlashes(RStripSlash(parent_prefix) \o this_prefix)

RECURSIVE build_blueprint(_, _, _, _, _, _, _)
RECURSIVE build_nested(_, _, _, _, _, _, _)
\* returns the heap with ret = the rules of the blueprint, nested ones included,
\* in registration order; chain and prefixes are the names and url_prefixes of
\* the blueprints this one is registered under
build_blueprint(h, n, url_prefix, parent_prefix, chain, prefixes, fuel) ==
    IF h.raised # "" THEN h
    ELSE IF fuel = 0 THEN [h EXCEPT !.raised = "RecursionError"]
    ELSE
        LET this_prefix == url_prefix
            full_prefix == FullPrefix(parent_prefix, this_prefix)
            h1  == get_endpoints(h, n, FALSE)
            own == OwnRoutes(n, Append(chain, n), Append(prefixes, this_prefix),
                             full_prefix, h1.ret)
        IN  IF h1.raised # "" THEN h1
            ELSE build_nested([h1 EXCEPT !.ret = own], n, get_wapps(n), full_prefix,
                              Append(chain, n), Append(prefixes, this_prefix),
                              fuel - 1)

build_nested(h, n, ws, full_prefix, chain, prefixes, fuel) ==
    IF ws = <<>> \/ h.raised # "" THEN h
    ELSE
        LET sub == build_blueprint(h, Head(ws)[2], <<"/", Head(ws)[1]>>, full_prefix,
                                   chain, prefixes, fuel)
        IN  IF sub.raised # "" THEN sub
            ELSE build_nested([sub EXCEPT !.ret = h.ret \o sub.ret], n, Tail(ws),
                              full_prefix, chain, prefixes, fuel)

-----------------------------------------------------------------------------
(* ASGI edition (wapp/core/asgi.py): make_crud_router's routes and           *)
(* Wapp.build_router                                                         *)

\* flask_to_fastapi_path on the parameter tokens in use
FlaskToFastapiToken(t) ==
    CASE t = "<int:id>"    -> "{id:int}"
      [] t = "<string:id>" -> "{id:str}"
      [] t = "<id>"        -> "{id}"
      [] OTHER             -> t

flask_to_fastapi_path(p) == [i \in 1..Len(p) |-> FlaskToFastapiToken(p[i])]

\* the routes of make_crud_router, in the order it adds them; the router's
\* prefix is "/" + slug
CrudRouterRoutes ==
    << [action |-> "list",   method |-> "GET",    path |-> <<"/">>],
       [action |-> "get",    method |-> "GET",    path |-> <<"/", "{id:int}">>],
       [action |-> "create", method |-> "POST",   path |-> <<"/">>],
       [action |-> "update", method |-> "PUT",    path |-> <<"/", "{id:int}">>],
       [action |-> "delete", method |-> "DELETE", path |-> <<"/", "{id:int}">>] >>

AsgiRoute(n, kind, attr, action, method, path, target) ==
    [owner |-> n, kind |-> kind, attr |-> attr, action |-> action,
     method |-> method, path |-> path, target |-> target]

make_crud_router(n, attr, model, prefix) ==
    [i \in 1..Len(CrudRouterRoutes) |->
        AsgiRoute(n, "crud", attr, CrudRouterRoutes[i].action,
                  CrudRouterRoutes[i].method,
                  prefix \o <<"/", model.slug>> \o CrudRouterRoutes[i].path,
                  <<model.cls, CrudRouterRoutes[i].action>>)]

\* asgi.py get_models keeps every model class; a directive names one of them
AsgiIsLiveDirective(n, name) ==
    /\ StartsWithUnderscore(name)
    /\ Has(Decl(n).models, StripUnderscore(name))

\* not meta or not getattr(meta, "slug", None)
AsgiMissingSlug(n, name) ==
    /\ AsgiIsLiveDirective(n, name)
    /\ LET model == Lookup(Decl(n).models, StripUnderscore(name))
       IN  model.meta # "ok" \/ model.slug = ""

\* step 1 of build_router: a CRUD router for each directive that is True or a dict
AsgiCrudRoutes(n, prefix) ==
    Flatten([i \in 1..Len(Decl(n).endpoints) |->
        LET name == Decl(n).endpoints[i][1]
            val  == Decl(n).endpoints[i][2]
        IN  IF AsgiIsLiveDirective(n, name) /\ val.t \in {"true", "dict"}
            THEN make_crud_router(n, name,
                    Lookup(Decl(n).models, StripUnderscore(name)), prefix)
            ELSE <<>>])

\* step 2 of build_router: the custom endpoint classes with a method and a pattern
AsgiCustomRoutes(n, prefix) ==
    LET eps == ExplicitEndpoints(Decl(n).endpoints)
    IN  Flatten([i \in 1..Len(eps) |->
            IF eps[i][2].method = "" \/ eps[i][2].pattern = <<>> THEN <<>>
            ELSE <<AsgiRoute(n, "custom", eps[i][1], "", eps[i][2].method,
                             prefix \o flask_to_fastapi_path(eps[i][2].pattern),
                             <<eps[i][2].name, "">>)>>])

RECURSIVE build_router(_, _, _)
RECURSIVE build_router_nested(_, _, _, _)
\* returns [raised, routes]; the paths are relative to the including router
build_router(n, prefix, fuel) ==
    IF fuel = 0 THEN [raised |-> "RecursionError", routes |-> <<>>]
    ELSE IF \E i \in 1..Len(Decl(n).endpoints) :
                AsgiMissingSlug(n, Decl(n).endpoints[i][1])
    THEN [raised |-> "ValueError", routes |-> <<>>]
    ELSE build_router_nested(AsgiCrudRoutes(n, prefix) \o AsgiCustomRoutes(n, prefix),
                             get_wapps(n), prefix, fuel - 1)

build_router_nested(routes, ws, prefix, fuel) ==
    IF ws = <<>> THEN [raised |-> "", routes |-> routes]
    ELSE
        LET child == build_router(Head(ws)[2], <<"/", Head(ws)[1]>>, fuel)
        IN  IF child.raised # "" THEN child
            ELSE build_router_nested(
                    routes \o [i \in 1..Len(child.routes) |->
                        [child.routes[i] EXCEPT !.path = prefix \o @]],
                    Tail(ws), prefix, fuel)

-----------------------------------------------------------------------------
(* The operations on the composition tree *)

\* the db handles and url_prefix arguments a caller passes to bind;
\* <<>> is url_prefix=None
Dbs == {"db1", "db2"}

UrlPrefixes == {<<>>, <<"/", "api">>, <<"/", "api", "/">>}

Unset == [set |-> FALSE, eps |-> <<>>]

NoBlueprint == [set |-> FALSE, routes |-> <<>>]

NoRouter == [built |-> FALSE, routes |-> <<>>]

InitResolve ==
    /\ cfg \in ConfigNames
    /\ endpointsAttrs = [n \in DOMAIN Configs[cfg] |-> Configs[cfg][n].endpoints]
    /\ cached = [n \in DOMAIN Configs[cfg] |-> Unset]
    /\ blueprint = [n \in DOMAIN Configs[cfg] |-> NoBlueprint]
    /\ nodeDb = [n \in DOMAIN Configs[cfg] |-> "None"]
    /\ clsDb = <<>>
    /\ resolveCount = [n \in DOMAIN Configs[cfg] |-> 0]
    /\ resLog = [n \in DOMAIN Configs[cfg] |-> <<>>]
    /\ pc = "idle"
    /\ bindArgs = [db |-> "None", url_prefix |-> <<>>]
    /\ bindLog = <<>>
    /\ asgiRouter = NoRouter
    /\ err = ""
    /\ ops = 0

\* the class state after the calls of an operation
Store(h) ==
    /\ endpointsAttrs' = h.attrs
    /\ cached' = h.cached
    /\ blueprint' = h.bp
    /\ nodeDb' = h.ndb
    /\ clsDb' = h.cdb
    /\ resolveCount' = h.count
    /\ resLog' = h.log
    /\ err' = h.raised

\* a caller invokes cls.get_endpoints(fresh) on a node
CallGetEndpoints(n, fresh) ==
    /\ pc = "idle"
    /\ ops < MaxOps
    /\ Store(get_endpoints(Heap, n, fresh))
    /\ ops' = ops + 1
    /\ UNCHANGED <<cfg, asgiRouter, pc, bindArgs, bindLog, crudVars, toolVars>>

\* a caller invokes cls.bind_db(db_instance) on a node
CallBindDb(n, db) ==
    /\ pc = "idle"
    /\ ops < MaxOps
    /\ Store(bind_db(Heap, n, db, MaxDepth))
    /\ ops' = ops + 1
    /\ UNCHANGED <<cfg, asgiRouter, pc, bindArgs, bindLog, crudVars, toolVars>>

\* Wapp.bind, first statements: the caches of the bound class are reset
BindReset(db, url_prefix) ==
    /\ pc = "idle"
    /\ ops < MaxOps
    /\ Store([Heap EXCEPT !.cached[Root] = Unset, !.bp[Root] = NoBlueprint])
    /\ bindArgs' = [db |-> db, url_prefix |-> url_prefix]
    /\ pc' = "generate"
    /\ ops' = ops + 1
    /\ UNCHANGED <<cfg, asgiRouter, bindLog, crudVars, toolVars>>

\* Wapp.bind: cls._generate_endpoints_recursive()
BindGenerate ==
    /\ pc = "generate"
    /\ LET h == generate_endpoints_recursive(Heap, Root, MaxDepth)
       IN  /\ Store(h)
           /\ pc' = IF h.raised = "" THEN "bind_db" ELSE "idle"
    /\ UNCHANGED <<cfg, asgiRouter, bindArgs, bindLog, ops, crudVars, toolVars>>

\* Wapp.bind: cls._bind_db_recursive(db_instance)
BindDbRecursive ==
    /\ pc = "bind_db"
    /\ LET h == bind_db_recursive(Heap, Root, bindArgs.db, MaxDepth)
       IN  /\ Store(h)
           /\ pc' = IF h.raised = "" THEN "build" ELSE "idle"
    /\ UNCHANGED <<cfg, asgiRouter, bindArgs, bindLog, ops, crudVars, toolVars>>

\* Wapp.bind: cls._blueprint = cls._build_blueprint(url_prefix);
\* app.register_blueprint(cls._blueprint)
BindBuild ==
    /\ pc = "build"
    /\ LET h == build_blueprint(Heap, Root, bindArgs.url_prefix, <<>>, <<>>, <<>>,
                               MaxDepth)
       IN  IF h.raised = ""
           THEN /\ Store([h EXCEPT !.bp[Root] = [set |-> TRUE, routes |-> h.ret]])
                /\ bindLog' = Append(bindLog, h.ret)
           ELSE /\ Store(h)
                /\ bindLog' = bindLog
    /\ pc' = "idle"
    /\ UNCHANGED <<cfg, asgiRouter, bindArgs, ops, crudVars, toolVars>>

\* ASGI edition: make_app calls root_wapp.build_router(session_dep=...)
MakeApp ==
    /\ pc = "idle"
    /\ ops < MaxOps
    /\ LET r == build_router(Root, <<>>, MaxDepth)
       IN  /\ asgiRouter' = [built |-> r.raised = "", routes |-> r.routes]
           /\ err' = r.raised
    /\ ops' = ops + 1
    /\ UNCHANGED <<cfg, endpointsAttrs, cached, blueprint, nodeDb, clsDb,
                   resolveCount, resLog, pc, bindArgs, bindLog, crudVars, toolVars>>

NextResolve ==
    \/ MakeApp
    \/ \E n \in Nodes, fresh \in BOOLEAN : CallGetEndpoints(n, fresh)
    \/ \E n \in Nodes, db \in Dbs : CallBindDb(n, db)
    \/ \E db \in Dbs, url_prefix \in UrlPrefixes : BindReset(db, url_prefix)
    \/ BindGenerate
    \/ BindDbRecursive
    \/ BindBuild

-----------------------------------------------------------------------------
(* The table behind the synthesized CRUD handlers: a model with columns      *)
(* id (autoincrement primary key), name (nullable=False) and description     *)
(* (nullable=True), as demo/wapp.py declares Foo                             *)

NULL == "NULL"

Columns == {"name", "description"}

\* request bodies, as JSON objects: lists of <<key, value>>
Bodies ==
    { <<>>,
      << <<"name", "a">> >>,
      << <<"name", "b">>, <<"description", "d">> >>,
      << <<"description", "d">> >>,
      << <<"name", NULL>> >>,
      << <<"name", "a">>, <<"bogus", "x">> >> }

\* the data-access call of a handler at which the connection fails
FailPoints == {"none", "get", "commit", "refresh"}

FieldOf(data, k) == IF Has(data, k) THEN Lookup(data, k) ELSE NULL

\* model(**data): the row of a new object
NewRow(data) ==
    [name |-> FieldOf(data, "name"), description |-> FieldOf(data, "description")]

\* for k, v in data.items(): setattr(obj, k, v), on the mapped columns
Assign(row, data) ==
    [name |-> IF Has(data, "name") THEN Lookup(data, "name") ELSE row.name,
     description |-> IF Has(data, "description") THEN Lookup(data, "description")
                     ELSE row.description]

\* a keyword that is no attribute of the model: model(**data) raises TypeError
HasUnknownKey(data) == \E i \in 1..Len(data) : data[i][1] \notin Columns

\* the NOT NULL constraint the flush of a commit checks
Violates(row) == row.name = NULL

\* the outcome of a handler call
\*   status, body: the response; escaped: the exception left the handler and
\*   the request boundary of the package (the host framework answers)
\*   exc: the exception raised inside ("" if none)
\*   commits: the commits that succeeded
\*   pending: the session still holds the changes of a failed commit when the
\*   handler is left (nothing rolled them back or closed the session)
Outcome(status, body, exc, escaped, st, nid, commits, pending) ==
    [status |-> status, body |-> body, exc |-> exc, escaped |-> escaped,
     store |-> st, nextId |-> nid, commits |-> commits, pending |-> pending]

RowAdded(st, id, row) == [i \in DOMAIN st \cup {id} |-> IF i = id THEN row ELSE st[i]]

RowRemoved(st, id) == [i \in DOMAIN st \ {id} |-> st[i]]

-----------------------------------------------------------------------------
(* Flask edition: WappEndpoint.handle_request around Get/List/Create/Update/ *)
(* Delete.handle. An exception of handle is caught by handle_request, which  *)
(* answers {"error": str(e)} with status 500.                                *)

Caught(exc, st, nid, pending) ==
    Outcome(500, "error", exc, FALSE, st, nid, 0, pending)

NotFound404(st, nid) == Outcome(404, "error", "", FALSE, st, nid, 0, FALSE)

FlaskGet(st, nid, id, data, fail) ==
    IF fail = "get" THEN Caught("OperationalError", st, nid, FALSE)
    ELSE IF id \notin DOMAIN st THEN NotFound404(st, nid)
    ELSE Outcome(200, "obj", "", FALSE, st, nid, 0, FALSE)

FlaskList(st, nid, id, data, fail) ==
    IF fail = "get" THEN Caught("OperationalError", st, nid, FALSE)
    ELSE Outcome(200, "list", "", FALSE, st, nid, 0, FALSE)

FlaskCreate(st, nid, id, data, fail) ==
    IF HasUnknownKey(data) THEN Caught("TypeError", st, nid, FALSE)
    ELSE IF fail = "commit" THEN Caught("OperationalError", st, nid, TRUE)
    ELSE IF Violates(NewRow(data)) THEN Caught("IntegrityError", st, nid, TRUE)
    ELSE Outcome(200, "obj", "", FALSE, RowAdded(st, nid, NewRow(data)), nid + 1,
                 1, FALSE)

\* an update that stores the body as a new record when the id is unknown
FlaskUpdateUpsert(st, nid, id, data, fail) ==
    IF fail = "get" THEN Caught("OperationalError", st, nid, FALSE)
    ELSE IF id \notin DOMAIN st
    THEN Outcome(200, "obj", "", FALSE, RowAdded(st, id, NewRow(data)), nid, 1, FALSE)
    ELSE IF fail = "commit" THEN Caught("OperationalError", st, nid, TRUE)
    ELSE IF Violates(Assign(st[id], data)) THEN Caught("IntegrityError", st, nid, TRUE)
    ELSE Outcome(200, "obj", "", FALSE, RowAdded(st, id, Assign(st[id], data)), nid,
                 1, FALSE)

FlaskUpdate(st, nid, id, data, fail) ==
    IF fail = "get" THEN Caught("OperationalError", st, nid, FALSE)
    ELSE IF id \notin DOMAIN st THEN NotFound404(st, nid)
    ELSE IF fail = "commit" THEN Caught("OperationalError", st, nid, TRUE)
    ELSE IF Violates(Assign(st[id], data)) THEN Caught("IntegrityError", st, nid, TRUE)
    ELSE Outcome(200, "obj", "", FALSE, RowAdded(st, id, Assign(st[id], data)), nid,
                 1, FALSE)

FlaskDelete(st, nid, id, data, fail) ==
    IF fail = "get" THEN Caught("OperationalError", st, nid, FALSE)
    ELSE IF id \notin DOMAIN st THEN NotFound404(st, nid)
    ELSE IF fail = "commit" THEN Caught("OperationalError", st, nid, TRUE)
    ELSE Outcome(200, "deleted", "", FALSE, RowRemoved(st, id), nid, 1, FALSE)

-----------------------------------------------------------------------------
(* ASGI edition: build_pyd_from_sqla, the shapes derived from a table *)

\* a column as SQLAlchemy holds it: default and server_default say whether
\* one is declared; autoincrement is "auto" unless the declaration sets it
Column(name, type, primary_key, nullable, default, server_default, autoincrement) ==
    [name |-> name, type |-> type, primary_key |-> primary_key,
     nullable |-> nullable, default |-> default,
     server_default |-> server_default, autoincrement |-> autoincrement]

\* the columns of Foo that the store keeps
FooTable ==
    << Column("id", "int", TRUE, FALSE, FALSE, FALSE, "auto"),
       Column("name", "str", FALSE, FALSE, FALSE, FALSE, "auto"),
       Column("description", "str", FALSE, TRUE, FALSE, FALSE, "auto") >>

\* a table with a string primary key, a client default and a server default
StockTable ==
    << Column("code", "str", TRUE, FALSE, FALSE, FALSE, "auto"),
       Column("qty", "int", FALSE, FALSE, TRUE, FALSE, "auto"),
       Column("state", "str", FALSE, FALSE, FALSE, TRUE, "auto"),
       Column("label", "str", FALSE, FALSE, FALSE, FALSE, "auto") >>

\* a table whose columns are declared with autoincrement=False
ManualTable ==
    << Column("ref", "str", TRUE, FALSE, FALSE, FALSE, "false"),
       Column("title", "str", FALSE, FALSE, FALSE, FALSE, "false"),
       Column("note", "str", FALSE, TRUE, FALSE, FALSE, "false"),
       Column("seq", "int", FALSE, FALSE, FALSE, FALSE, "true") >>

Tables == {FooTable, StockTable, ManualTable}

\* bool(col.autoincrement or (col.primary_key and python_type in (int,)));
\* the strings "auto" and True are truthy
col_is_autoincrement(col) ==
    col.autoincrement # "false" \/ (col.primary_key /\ col.type = "int")

\* a shape that takes the client default of a column for a value sent
ColumnRequiredDespiteDefault(col) == ~col.nullable /\ ~col.server_default

\* required = not col.nullable and col.default is None and
\*            col.server_default is None
ColumnRequired(col) == ~col.nullable /\ ~col.default /\ ~col.server_default

\* a field of a derived shape: (annotation, default), default "..." = required
Field(name, type, optional, required) ==
    [name |-> name, type |-> type, optional |-> optional, required |-> required]

\* what one column contributes to the shape of a mode
ColumnFields(col, mode) ==
    CASE mode = "out" ->
            <<Field(col.name, col.type, FALSE,
                    ColumnRequired(col) /\ ~col_is_autoincrement(col))>>
      [] mode = "create" ->
            IF col.primary_key /\ col_is_autoincrement(col) THEN <<>>
            ELSE <<Field(col.name, col.type, FALSE,
                         ColumnRequired(col) /\ ~col.primary_key)>>
      [] mode = "update" ->
            <<Field(col.name, col.type, TRUE, FALSE)>>
      [] OTHER -> <<>>

build_pyd_from_sqla(columns, mode) ==
    Flatten([i \in 1..Len(columns) |-> ColumnFields(columns[i], mode)])

-----------------------------------------------------------------------------
(* ASGI edition: the handlers of make_crud_router. The session comes from    *)
(* get_session_dep, whose "async with" closes it on every exit, so nothing   *)
(* stays pending. An exception other than HTTPException leaves the handler   *)
(* and the package: the host framework answers 500.                          *)

Escaped(exc, st, nid, commits) ==
    Outcome(500, "server_error", exc, TRUE, st, nid, commits, FALSE)

HTTP404(st, nid) == Outcome(404, "detail", "HTTPException", FALSE, st, nid, 0, FALSE)

\* the body fits the Create shape of Foo: every required field is there
\* and is no null
FitsCreate(data) ==
    LET shape == build_pyd_from_sqla(FooTable, "create")
    IN  \A i \in 1..Len(shape) :
            shape[i].required =>
                (Has(data, shape[i].name) /\ Lookup(data, shape[i].name) # NULL)

RECURSIVE KnownItems(_)
\* payload.model_dump(...): the schema's fields; other keys are dropped
KnownItems(data) ==
    IF data = <<>> THEN <<>>
    ELSE (IF Head(data)[1] \in Columns THEN <<Head(data)>> ELSE <<>>)
         \o KnownItems(Tail(data))

AsgiGet(st, nid, id, data, fail) ==
    IF fail = "get" THEN Escaped("OperationalError", st, nid, 0)
    ELSE IF id \notin DOMAIN st THEN HTTP404(st, nid)
    ELSE Outcome(200, "obj", "", FALSE, st, nid, 0, FALSE)

AsgiList(st, nid, id, data, fail) ==
    IF fail = "get" THEN Escaped("OperationalError", st, nid, 0)
    ELSE Outcome(200, "list", "", FALSE, st, nid, 0, FALSE)

\* a create handler that stores the name and drops the other fields
AsgiCreateNameOnly(st, nid, id, data, fail) ==
    IF ~FitsCreate(data)
    THEN Outcome(422, "detail", "RequestValidationError", FALSE, st, nid, 0, FALSE)
    ELSE Outcome(201, "obj", "", FALSE,
                 RowAdded(st, nid, [name |-> FieldOf(data, "name"),
                                    description |-> NULL]),
                 nid + 1, 1, FALSE)

AsgiCreate(st, nid, id, data, fail) ==
    IF ~FitsCreate(data)
    THEN Outcome(422, "detail", "RequestValidationError", FALSE, st, nid, 0, FALSE)
    ELSE IF fail = "commit" THEN Escaped("OperationalError", st, nid, 0)
    ELSE IF Violates(NewRow(KnownItems(data)))
    THEN Escaped("IntegrityError", st, nid, 0)
    ELSE IF fail = "refresh"
    THEN Escaped("OperationalError", RowAdded(st, nid, NewRow(KnownItems(data))),
                 nid + 1, 1)
    ELSE Outcome(201, "obj", "", FALSE, RowAdded(st, nid, NewRow(KnownItems(data))),
                 nid + 1, 1, FALSE)

\* an update handler that replaces the record by the body
AsgiUpdateReplace(st, nid, id, data, fail) ==
    IF fail = "get" THEN Escaped("OperationalError", st, nid, 0)
    ELSE IF id \notin DOMAIN st THEN HTTP404(st, nid)
    ELSE IF fail = "commit" THEN Escaped("OperationalError", st, nid, 0)
    ELSE IF Violates(NewRow(KnownItems(data)))
    THEN Escaped("IntegrityError", st, nid, 0)
    ELSE Outcome(200, "obj", "", FALSE, RowAdded(st, id, NewRow(KnownItems(data))),
                 nid, 1, FALSE)

AsgiUpdate(st, nid, id, data, fail) ==
    IF fail = "get" THEN Escaped("OperationalError", st, nid, 0)
    ELSE IF id \notin DOMAIN st THEN HTTP404(st, nid)
    ELSE IF fail = "commit" THEN Escaped("OperationalError", st, nid, 0)
    ELSE IF Violates(Assign(st[id], KnownItems(data)))
    THEN Escaped("IntegrityError", st, nid, 0)
    ELSE IF fail = "refresh"
    THEN Escaped("OperationalError", RowAdded(st, id, Assign(st[id], KnownItems(data))),
                 nid, 1)
    ELSE Outcome(200, "obj", "", FALSE,
                 RowAdded(st, id, Assign(st[id], KnownItems(data))), nid, 1, FALSE)

AsgiDelete(st, nid, id, data, fail) ==
    IF fail = "get" THEN Escaped("OperationalError", st, nid, 0)
    ELSE IF id \notin DOMAIN st THEN Outcome(204, "empty", "", FALSE, st, nid, 0, FALSE)
    ELSE IF fail = "commit" THEN Escaped("OperationalError", st, nid, 0)
    ELSE Outcome(204, "empty", "", FALSE, RowRemoved(st, id), nid, 1, FALSE)

-----------------------------------------------------------------------------
(* Requests to an explicit endpoint: HandleRequest of demo/wapp.py, whose    *)
(* Meta.request_model is RequestModel                                        *)

\* the JSON body fits RequestModel or not; what handle() raises, if anything
RequestBodies == {"fits", "misfit"}

HandleExceptions == {"RuntimeError", "KeyError"}

\* Flask edition: handle_request turns a body that fails model_validate into
\* None, and HandleRequest.handle answers 400 for it; an exception of
\* handle() is caught by handle_request
FlaskExplicit(st, nid, body, exc) ==
    IF body = "misfit" THEN Outcome(400, "error", "", FALSE, st, nid, 0, FALSE)
    ELSE IF exc # "none" THEN Caught(exc, st, nid, FALSE)
    ELSE Outcome(200, "result", "", FALSE, st, nid, 0, FALSE)

\* ASGI edition: the handler build_router generates validates the body and
\* awaits inst.handle(...) with no try around either
AsgiExplicit(st, nid, body, exc) ==
    IF body = "misfit"
    THEN Outcome(500, "server_error", "ValidationError", TRUE, st, nid, 0, FALSE)
    ELSE IF exc # "none"
    THEN Outcome(500, "server_error", exc, TRUE, st, nid, 0, FALSE)
    ELSE Outcome(200, "result", "", FALSE, st, nid, 0, FALSE)

-----------------------------------------------------------------------------
(* Requests to the synthesized handlers *)

Ids == 1..MaxId

\* the JSON object of a response that carries a record: to_response(obj)
\* with as_dict, Out.model_validate(obj, from_attributes=True)
NoValue == [id |-> 0, name |-> NULL, description |-> NULL]

ResponseValue(op, id, nid, out) ==
    IF out.body # "obj" THEN NoValue
    ELSE LET oid == IF op = "create" THEN nid ELSE id
         IN  [id |-> oid, name |-> out.store[oid].name,
              description |-> out.store[oid].description]

\* a session that holds nothing, before any request scope has ended
NoSession == [pending |-> <<>>, discarded |-> FALSE]

NoSchemas ==
    [built |-> FALSE, table |-> <<>>, out |-> <<>>, create |-> <<>>,
     update |-> <<>>]

NoRequest ==
    [op |-> "none", id |-> 0, data |-> <<>>, fail |-> "none", before |-> <<>>,
     out |-> Outcome(0, "", "", FALSE, <<>>, 1, 0, FALSE), value |-> NoValue]

\* the tables a program may start with: empty, or one row
InitialRows == {"empty", "one"}

InitCrud ==
    /\ variant \in {"flask", "asgi"}
    /\ \E rows \in InitialRows :
        /\ store = IF rows = "empty" THEN <<>>
                   ELSE [i \in {1} |-> [name |-> "a", description |-> NULL]]
        /\ nextId = IF rows = "empty" THEN 1 ELSE 2
    /\ resp = NoRequest
    /\ schemas = NoSchemas
    /\ session = NoSession
    /\ created = <<>>

\* make_crud_router(sa_model, ...): the three shapes are derived when the
\* router is made, before it serves a request
MakeCrudRouter ==
    /\ variant = "asgi"
    /\ ~schemas.built
    /\ \E table \in Tables :
        schemas' = [built |-> TRUE, table |-> table,
                    out    |-> build_pyd_from_sqla(table, "out"),
                    create |-> build_pyd_from_sqla(table, "create"),
                    update |-> build_pyd_from_sqla(table, "update")]
    /\ UNCHANGED <<variant, store, nextId, resp, session, created, resolveVars, toolVars>>

\* the handlers of the router serve the table it was made for
RouterServesFoo == schemas.built /\ schemas.table = FooTable

\* the change a handler leaves uncommitted in its session when its commit
\* raised: the add, the attribute assignments or the delete it had made
PendingChange(op, id, data, nid, st, out) ==
    IF ~out.pending THEN <<>>
    ELSE CASE op = "create" -> <<[kind |-> "add", id |-> nid, row |-> NewRow(data)]>>
           [] op = "update" -> <<[kind |-> "set", id |-> id,
                                  row |-> Assign(st[id], data)]>>
           [] op = "delete" -> <<[kind |-> "delete", id |-> id, row |-> st[id]]>>
           [] OTHER -> <<>>

RECURSIVE Flushed(_, _)
\* a commit writes every change its session holds
Flushed(changes, st) ==
    IF changes = <<>> THEN st
    ELSE Flushed(Tail(changes),
                 IF Head(changes).kind = "delete" THEN RowRemoved(st, Head(changes).id)
                 ELSE RowAdded(st, Head(changes).id, Head(changes).row))

\* a request scope that ends without closing its session
KeepScope(changes) == changes

\* the end of the request scope. ASGI edition: get_session_dep leaves its
\* "async with session_maker()", which closes the session. Flask edition: db
\* is the SQLAlchemy() object of Flask-SQLAlchemy (env.py), whose app-context
\* teardown removes the scoped session. Both discard what was not committed.
ReleaseScope(changes) == <<>>

\* one request served: the handler's outcome becomes the state
Serve(op, id, data, fail, out) ==
    /\ LET left == PendingChange(op, id, data, nextId, store, out)
       IN  /\ session' = [pending |-> ReleaseScope(
                                        IF out.commits = 1 THEN left
                                        ELSE session.pending \o left),
                          discarded |-> session.discarded \/ left # <<>>]
           /\ store' = IF out.commits = 1 THEN Flushed(session.pending, out.store)
                       ELSE out.store
    /\ resp' = [op |-> op, id |-> id, data |-> data, fail |-> fail,
                before |-> store, out |-> out,
                value |-> ResponseValue(op, id, nextId, out)]
    /\ nextId' = out.nextId
    /\ created' = IF op = "create" /\ out.body = "obj"
                  THEN RowAdded(created, nextId, data)
                  ELSE IF op \in {"update", "delete"} /\ id \in DOMAIN created
                  THEN RowRemoved(created, id)
                  ELSE created
    /\ UNCHANGED <<variant, schemas, resolveVars, toolVars>>

FlaskGetRequest ==
    /\ variant = "flask"
    /\ \E id \in Ids, fail \in {"none", "get"} :
        Serve("get", id, <<>>, fail, FlaskGet(store, nextId, id, <<>>, fail))

FlaskListRequest ==
    /\ variant = "flask"
    /\ \E fail \in {"none", "get"} :
        Serve("list", 0, <<>>, fail, FlaskList(store, nextId, 0, <<>>, fail))

FlaskCreateRequest ==
    /\ variant = "flask"
    /\ nextId <= MaxId
    /\ \E data \in Bodies, fail \in {"none", "commit"} :
        Serve("create", 0, data, fail, FlaskCreate(store, nextId, 0, data, fail))

FlaskUpdateRequest ==
    /\ variant = "flask"
    /\ \E id \in Ids, data \in Bodies, fail \in {"none", "get", "commit"} :
        Serve("update", id, data, fail, FlaskUpdate(store, nextId, id, data, fail))

FlaskDeleteRequest ==
    /\ variant = "flask"
    /\ \E id \in Ids, fail \in {"none", "get", "commit"} :
        Serve("delete", id, <<>>, fail, FlaskDelete(store, nextId, id, <<>>, fail))

AsgiGetRequest ==
    /\ variant = "asgi"
    /\ RouterServesFoo
    /\ \E id \in Ids, fail \in {"none", "get"} :
        Serve("get", id, <<>>, fail, AsgiGet(store, nextId, id, <<>>, fail))

AsgiListRequest ==
    /\ variant = "asgi"
    /\ RouterServesFoo
    /\ \E fail \in {"none", "get"} :
        Serve("list", 0, <<>>, fail, AsgiList(store, nextId, 0, <<>>, fail))

AsgiCreateRequest ==
    /\ variant = "asgi"
    /\ RouterServesFoo
    /\ nextId <= MaxId
    /\ \E data \in Bodies, fail \in {"none", "commit", "refresh"} :
        Serve("create", 0, data, fail, AsgiCreate(store, nextId, 0, data, fail))

AsgiUpdateRequest ==
    /\ variant = "asgi"
    /\ RouterServesFoo
    /\ \E id \in Ids, data \in Bodies, fail \in FailPoints :
        Serve("update", id, data, fail, AsgiUpdate(store, nextId, id, data, fail))

AsgiDeleteRequest ==
    /\ variant = "asgi"
    /\ RouterServesFoo
    /\ \E id \in Ids, fail \in {"none", "get", "commit"} :
        Serve("delete", id, <<>>, fail, AsgiDelete(store, nextId, id, <<>>, fail))

FlaskExplicitRequest ==
    /\ variant = "flask"
    /\ \E body \in RequestBodies, exc \in HandleExceptions \cup {"none"} :
        Serve("explicit", 0, <<>>, "none", FlaskExplicit(store, nextId, body, exc))

AsgiExplicitRequest ==
    /\ variant = "asgi"
    /\ \E body \in RequestBodies, exc \in HandleExceptions \cup {"none"} :
        Serve("explicit", 0, <<>>, "none", AsgiExplicit(store, nextId, body, exc))

NextCrud ==
    \/ MakeCrudRouter
    \/ FlaskExplicitRequest
    \/ AsgiExplicitRequest
    \/ FlaskGetRequest
    \/ FlaskListRequest
    \/ FlaskCreateRequest
    \/ FlaskUpdateRequest
    \/ FlaskDeleteRequest
    \/ AsgiGetRequest
    \/ AsgiListRequest
    \/ AsgiCreateRequest
    \/ AsgiUpdateRequest
    \/ AsgiDeleteRequest

-----------------------------------------------------------------------------
(* Django edition (wapp/wapp.py, wapp/decorators): Wapp.urlpatterns *)

\* at most this many models in the Models container of the root Wapp
MaxModels == 2

\* str.lower() of the class names in use
Lower(name) ==
    CASE name = "Article" -> "article"
      [] name = "Tag"     -> "tag"
      [] name = "Entry"   -> "entry"
      [] OTHER            -> name

\* a class found in a Models container; django tells a subclass of
\* django.db.models.Model from any other class, attrs are the attributes
\* set on the class after its body, decl is the decorator it was written with
DjangoClass(name, django) ==
    [name |-> name, django |-> django, attrs |-> <<>>, decl |-> "undecorated"]

\* ModelMetadata(slug=slug, model_cls=obj): slug or _meta.model_name
ModelMetadata(slug, model) ==
    [slug |-> IF slug # "None" THEN slug ELSE Lower(model.name)]

\* @wapp(ModelMetadata(slug=slug)) on a model class; slug "None" is
\* @wapp(ModelMetadata())
wapp(slug, model) ==
    [model EXCEPT !.attrs = SetAttr(@, "_wapp_model_metadata",
                                    ModelMetadata(slug, model)),
                  !.decl = slug]

\* the classes a Models container is written from
DjangoClasses ==
    { DjangoClass("Article", TRUE),
      wapp("posts", DjangoClass("Article", TRUE)),
      wapp("article", DjangoClass("Article", TRUE)),
      DjangoClass("Tag", TRUE),
      wapp("None", DjangoClass("Tag", TRUE)),
      DjangoClass("Helper", FALSE) }

\* a function decorated with @wapp(EndpointMetadata(pattern, name)), or bare
DjangoView(pattern, name) ==
    [attrs |-> IF name = "" THEN <<>>
               ELSE << <<"_wapp_endpoint_metadata",
                         [pattern |-> pattern, name |-> name]>> >>]

\* the declared Django composition: the root Wapp with the Models under
\* study, two custom views and one nested Wapp
DjangoDecl(models) ==
    [Site |-> [models |-> models,
               endpoints |-> << <<"stats", DjangoView("stats/", "stats")>>,
                                <<"plain", DjangoView("", "")>> >>,
               wapps |-> << <<"blog", "Blog">>, <<"self", "Site">> >>],
     Blog |-> [models |-> << <<"entry", wapp("entries", DjangoClass("Entry", TRUE))>> >>,
               endpoints |-> <<>>,
               wapps |-> <<>>]]

\* Wapp._get_model_slug
get_model_slug(model) ==
    IF /\ Has(model.attrs, "__wapp_model_meta__")
       /\ "slug" \in DOMAIN Lookup(model.attrs, "__wapp_model_meta__")
    THEN Lookup(model.attrs, "__wapp_model_meta__").slug
    ELSE Lower(model.name)

\* router.register(model_slug, viewset, basename=model_slug) for the Django
\* models of the container, in declaration order
RouterRegistry(models) ==
    LET IsModel(i) == models[i][2].django
        kept == SelectSeq([i \in 1..Len(models) |-> i], IsModel)
    IN  [j \in 1..Len(kept) |->
            [slug  |-> get_model_slug(models[kept[j]][2]),
             attr  |-> models[kept[j]][1],
             model |-> models[kept[j]][2]]]

\* the path() entries of the custom views that carry endpoint metadata
ViewPatterns(endpoints, prefix) ==
    LET HasMeta(i) == Has(endpoints[i][2].attrs, "_wapp_endpoint_metadata")
        kept == SelectSeq([i \in 1..Len(endpoints) |-> i], HasMeta)
    IN  [j \in 1..Len(kept) |->
            LET meta == Lookup(endpoints[kept[j]][2].attrs, "_wapp_endpoint_metadata")
            IN  [kind |-> "view", route |-> prefix \o meta.pattern,
                 name |-> meta.name, owner |-> "", registry |-> <<>>,
                 nested |-> <<>>]]

RECURSIVE urlpatterns(_, _, _, _)
\* Wapp.urlpatterns(prefix) of node n: the router of the models (a
\* DefaultRouter always has its root view), the custom views, and one
\* include per nested Wapp other than the class itself
urlpatterns(decl, n, prefix, fuel) ==
    LET router == <<[kind |-> "router", route |-> prefix, name |-> "",
                     owner |-> n, registry |-> RouterRegistry(decl[n].models),
                     nested |-> <<>>]>>
        others == WappsOtherThan(decl[n].wapps, n)
    IN  router \o ViewPatterns(decl[n].endpoints, prefix)
        \o [i \in 1..Len(others) |->
                [kind |-> "include",
                 route |-> prefix \o others[i][1] \o "/",
                 name |-> "", owner |-> others[i][2], registry |-> <<>>,
                 nested |-> IF fuel = 0 THEN <<>>
                            ELSE urlpatterns(decl, others[i][2], "", fuel - 1)]]

NoPatterns == [built |-> FALSE, prefix |-> "", patterns |-> <<>>]

\* the Models containers under study: up to MaxModels classes, under the
\* attribute names m1, m2, ...
ModelAttr(i) == CASE i = 1 -> "m1" [] i = 2 -> "m2" [] i = 3 -> "m3" [] OTHER -> "m"

InitDjango ==
    /\ \E len \in 0..MaxModels : \E pick \in [1..len -> DjangoClasses] :
            djModels = [i \in 1..len |-> <<ModelAttr(i), pick[i]>>]
    /\ djPatterns = NoPatterns

DjangoIdle ==
    /\ djModels = <<>>
    /\ djPatterns = NoPatterns

\* the project's urls.py calls Site.urlpatterns(prefix)
CallUrlpatterns(prefix) ==
    /\ ~djPatterns.built
    /\ djPatterns' = [built |-> TRUE, prefix |-> prefix,
                      patterns |-> urlpatterns(DjangoDecl(djModels), "Site", prefix,
                                               MaxDepth)]
    /\ UNCHANGED <<djModels, resolveVars, crudVars, pathVars, exportVars,
                   lifespanVars, facadeVars>>

NextDjango == \E prefix \in {"", "api/"} : CallUrlpatterns(prefix)

-----------------------------------------------------------------------------
(* flask_to_fastapi_path and _parse_path_params (wapp/core/asgi.py), on       *)
(* patterns cut into their literal pieces and their <...> parameters         *)

\* at most this many pieces in a pattern
MaxPieces == 3

\* the converters of a Flask rule; "" is the parameter written <name>
Converters == {"", "int", "string", "float", "path", "uuid"}

\* the pieces a Flask-style pattern is written from
Literal(text) == [kind |-> "literal", text |-> text, conv |-> "", name |-> ""]

AngleParam(conv, name) == [kind |-> "angle", text |-> "", conv |-> conv, name |-> name]

BraceParam(type, name) == [kind |-> "brace", text |-> "", conv |-> type, name |-> name]

FlaskPieces ==
    {Literal("/"), Literal("/items/")}
    \cup {AngleParam(c, n) : c \in Converters, n \in {"id", "key"}}

\* _path_int, _path_str and _path_plain applied in turn to one piece: each
\* rewrites the parameters of its own spelling and leaves every other text
SubAngle(piece) ==
    LET p1 == IF piece.kind = "angle" /\ piece.conv = "int"
              THEN BraceParam("int", piece.name) ELSE piece
        p2 == IF p1.kind = "angle" /\ p1.conv = "string"
              THEN BraceParam("str", p1.name) ELSE p1
    IN  IF p2.kind = "angle" /\ p2.conv = ""
        THEN BraceParam("", p2.name) ELSE p2

flask_to_fastapi(p) == [i \in 1..Len(p) |-> SubAngle(p[i])]

\* _TYPE_MAP
TYPE_MAP(type) == IF type = "" THEN "str" ELSE type

\* _PARAM_RE.finditer: the {name} and {name:int|str|float} parameters, in
\* order of appearance, as (name, py_type)
parse_path_params(p) ==
    LET Matches(piece) == piece.kind = "brace" /\ piece.conv \in {"", "int", "str", "float"}
        found == SelectSeq(p, Matches)
    IN  [i \in 1..Len(found) |-> <<found[i].name, TYPE_MAP(found[i].conv)>>]

NoTranslation == [done |-> FALSE, path |-> <<>>, params |-> <<>>]

InitPath ==
    /\ \E len \in 0..MaxPieces : flaskPath \in [1..len -> FlaskPieces]
    /\ fastapiPath = NoTranslation

PathIdle ==
    /\ flaskPath = <<>>
    /\ fastapiPath = NoTranslation

\* build_router translates the pattern of a custom endpoint and reads the
\* parameters of the result
TranslatePath ==
    /\ ~fastapiPath.done
    /\ LET out == flask_to_fastapi(flaskPath)
       IN  fastapiPath' = [done |-> TRUE, path |-> out,
                           params |-> parse_path_params(out)]
    /\ UNCHANGED <<flaskPath, resolveVars, crudVars, djangoVars, exportVars,
                   lifespanVars, facadeVars>>

NextPath == TranslatePath

-----------------------------------------------------------------------------
(* The exporter's main (wapp/tools/export_openapi_ts.py) and the files of    *)
(* its --out directory                                                       *)

\* at most this many runs of main on one directory
MaxRuns == 2

Artifacts == {"openapi.json", "openapi.ts", "client.ts", "api.ts", "models.ts"}

\* the text of a file: who wrote it, and from which OpenAPI document
Text(by, doc) == [by |-> by, doc |-> doc]

Absent == Text("nobody", "")

\* a file somebody edited or left behind
Foreign == Text("user", "")

\* the documents app.openapi() can return
Documents == {"docA", "docB"}

\* what becomes of the run: the --app symbol is no application, the
\* openapi-typescript command exits non-zero, or every step succeeds
RunOutcomes == {"bad_app", "tool_failed", "ok"}

\* a run that rewrites client.ts whether or not it is there
ClientAlwaysWritten(existing, overwrite_client) == Text("CLIENT_TS", "")

\* step 3: if args.overwrite_client or not client_ts.exists()
ClientAfterRun(existing, overwrite_client) ==
    IF overwrite_client \/ existing = Absent THEN Text("CLIENT_TS", "") ELSE existing

\* the directory after main(); tool_wrote tells whether a failing
\* openapi-typescript had written its output before it exited
main(dir, doc, overwrite_client, outcome, tool_wrote) ==
    IF outcome = "bad_app" THEN dir
    ELSE
        LET d1 == [dir EXCEPT !["openapi.json"] = Text("json.dumps", doc)]
            d2 == IF outcome = "ok" \/ tool_wrote
                  THEN [d1 EXCEPT !["openapi.ts"] = Text("openapi-typescript", doc)]
                  ELSE d1
        IN  IF outcome = "tool_failed" THEN d2
            ELSE [d2 EXCEPT !["client.ts"] = ClientAfterRun(@, overwrite_client),
                            !["api.ts"]    = Text("build_facade", doc),
                            !["models.ts"] = Text("build_models", doc)]

NoRun == [n |-> 0, outcome |-> "", doc |-> "", overwrite_client |-> FALSE,
          before |-> [f \in Artifacts |-> Absent]]

InitExport ==
    /\ outDir \in [Artifacts -> {Absent, Foreign}]
    /\ exportRun = NoRun

ExportIdle ==
    /\ outDir = [f \in Artifacts |-> Absent]
    /\ exportRun = NoRun

\* python export_openapi_ts.py --app ... --out ... [--overwrite-client]
RunMain(doc, overwrite_client, outcome, tool_wrote) ==
    /\ exportRun.n < MaxRuns
    /\ outcome # "tool_failed" => ~tool_wrote
    /\ outDir' = main(outDir, doc, overwrite_client, outcome, tool_wrote)
    /\ exportRun' = [n |-> exportRun.n + 1, outcome |-> outcome, doc |-> doc,
                     overwrite_client |-> overwrite_client, before |-> outDir]
    /\ UNCHANGED <<resolveVars, crudVars, djangoVars, pathVars, lifespanVars,
                   facadeVars>>

\* between two runs the user edits the client.ts the first one wrote
EditClient ==
    /\ exportRun.n > 0
    /\ exportRun.n < MaxRuns
    /\ outDir["client.ts"] = Text("CLIENT_TS", "")
    /\ outDir' = [outDir EXCEPT !["client.ts"] = Foreign]
    /\ UNCHANGED <<exportRun, resolveVars, crudVars, djangoVars, pathVars,
                   lifespanVars, facadeVars>>

NextExport ==
    \/ \E doc \in Documents, overwrite_client \in BOOLEAN,
          outcome \in RunOutcomes, tool_wrote \in BOOLEAN :
            RunMain(doc, overwrite_client, outcome, tool_wrote)
    \/ EditClient

-----------------------------------------------------------------------------
(* lifespan_with_subprocess (wapp/templates/automigrate.py) *)

\* the values the toggles are given in the environment; "unset" reads as
\* the default "1"
ToggleValues == {"unset", "1", "0", "false", "False", "FALSE", "true"}

\* os.getenv(name, "1") in ("0", "false", "False")
SwitchedOff(value) == value \in {"0", "false", "False"}

\* the commands of the startup sequence, in the order of the code
Commands == <<"upgrade head", "revision --autogenerate", "upgrade head", "export">>

\* how a subprocess ends: exit status 0, a non-zero exit status, or
\* subprocess.run itself raising (the executable is not found)
Endings == {"zero", "nonzero", "raised"}

\* a startup that goes on whatever its migration commands return
AfterMigrationUnchecked(pos, ending) == pos + 1

\* _run(..., check=True): a non-zero exit raises CalledProcessError, which
\* leaves the lifespan (as RuntimeError for the revision step); 0 stands for
\* the lifespan having raised
AfterMigration(pos, ending) == IF ending = "zero" THEN pos + 1 ELSE 0

\* step 4: subprocess.run(..., check=False) inside try/except Exception
AfterExport(pos, ending) == pos + 1

\* position 1..4: about to run Commands[position]; 5: at the yield, the
\* application serves; 0: the lifespan raised; -1: not yet entered
NotEntered == [pos |-> -1, ran |-> <<>>]

InitLifespan ==
    /\ environ \in [AUTO_MIGRATE : ToggleValues, AUTO_EXPORT : ToggleValues,
                     ini_exists : BOOLEAN]
    /\ lifespan = NotEntered

LifespanIdle ==
    /\ environ = [AUTO_MIGRATE |-> "unset", AUTO_EXPORT |-> "unset",
                  ini_exists |-> TRUE]
    /\ lifespan = NotEntered

\* the application starts: the AUTO_MIGRATE test and the alembic.ini test
EnterLifespan ==
    /\ lifespan.pos = -1
    /\ lifespan' = [lifespan EXCEPT !.pos =
                        IF SwitchedOff(environ.AUTO_MIGRATE) THEN 5
                        ELSE IF ~environ.ini_exists THEN 0
                        ELSE 1]
    /\ UNCHANGED <<environ, resolveVars, crudVars, djangoVars, pathVars, exportVars,
                   facadeVars>>

\* steps 1 to 3: one alembic command
RunMigration(ending) ==
    /\ lifespan.pos \in 1..3
    /\ lifespan' = [pos |-> AfterMigration(lifespan.pos, ending),
                    ran |-> Append(lifespan.ran,
                                   [cmd |-> Commands[lifespan.pos], ending |-> ending])]
    /\ UNCHANGED <<environ, resolveVars, crudVars, djangoVars, pathVars, exportVars,
                   facadeVars>>

\* step 4: the exporter, unless AUTO_EXPORT switches it off
RunExport(ending) ==
    /\ lifespan.pos = 4
    /\ lifespan' = IF SwitchedOff(environ.AUTO_EXPORT)
                   THEN [lifespan EXCEPT !.pos = 5]
                   ELSE [pos |-> AfterExport(lifespan.pos, ending),
                         ran |-> Append(lifespan.ran,
                                        [cmd |-> Commands[4], ending |-> ending])]
    /\ UNCHANGED <<environ, resolveVars, crudVars, djangoVars, pathVars, exportVars,
                   facadeVars>>

NextLifespan ==
    \/ EnterLifespan
    \/ \E ending \in Endings : RunMigration(ending)
    \/ \E ending \in Endings : RunExport(ending)

-----------------------------------------------------------------------------
(* find_crud_bases, build_facade and build_models                            *)
(* (wapp/tools/export_openapi_ts.py)                                         *)

\* at most this many groups of operations in a document
MaxGroups == 3

\* at most this many runs of the exporter on one document
MaxExports == 2

\* a path key of the document: its segments (path_segments) and whether it
\* ends with "/"
PathKey(segs, slash) == [segs |-> segs, slash |-> slash]

Operation(path, method, summary, schema) ==
    [path |-> path, method |-> method, summary |-> summary, schema |-> schema]

\* "{" in seg
IsParamSegment(seg) == seg \in {"{id}", "{key}"}

last_literal_segment(p) ==
    IF p.segs = <<>> \/ IsParamSegment(p.segs[Len(p.segs)]) THEN ""
    ELSE p.segs[Len(p.segs)]

\* p.rstrip("/") + "/{id}"
IdPath(p) == PathKey(Append(p.segs, "{id}"), FALSE)

\* p == base or p.startswith(base), for a base that ends with "/"
StartsWith(p, base) ==
    /\ Len(base.segs) <= Len(p.segs)
    /\ SubSeq(p.segs, 1, Len(base.segs)) = base.segs
    /\ (Len(p.segs) > Len(base.segs) \/ p.slash)

\* snake() and str.lower() of the names in use, and pascal() of them
Snake(name) ==
    CASE name = "Foo" -> "foo"
      [] name = "Bar" -> "bar"
      [] OTHER        -> name

Pascal(name) ==
    CASE name = "foo"    -> "Foo"
      [] name = "foos"   -> "Foos"
      [] name = "bar"    -> "Bar"
      [] name = "handle" -> "Handle"
      [] name = "random" -> "Random"
      [] OTHER           -> name

\* the five operations of a CRUD base, the list operation answering with
\* an array of the schema named
CrudGroup(base, schema) ==
    << Operation(base, "GET", "", schema), Operation(base, "POST", "", ""),
       Operation(IdPath(base), "GET", "", ""), Operation(IdPath(base), "PUT", "", ""),
       Operation(IdPath(base), "DELETE", "", "") >>

\* the groups of operations a document is put together from
Groups ==
    << CrudGroup(PathKey(<<"foo">>, TRUE), "Foo"),
       CrudGroup(PathKey(<<"bar">>, TRUE), ""),
       CrudGroup(PathKey(<<"foos">>, TRUE), "Foo"),
       << Operation(PathKey(<<"foo", "random">>, TRUE), "GET", "", "") >>,
       << Operation(PathKey(<<"foo", "{id}">>, FALSE), "PATCH", "", "") >>,
       << Operation(PathKey(<<"handle">>, TRUE), "PUT", "", ""),
          Operation(PathKey(<<"handle">>, TRUE), "GET", "", "") >>,
       << Operation(PathKey(<<"status">>, FALSE), "GET", "handle", "") >> >>

HasOperation(doc, path, method) ==
    \E i \in 1..Len(doc) : doc[i].path = path /\ doc[i].method = method

\* trailing_slash_bases, a set
TrailingSlashBases(doc) == {doc[i].path : i \in {j \in 1..Len(doc) : doc[j].path.slash}}

\* the orders in which a set can be iterated
Orders(S) ==
    {f \in [1..Cardinality(S) -> S] : \A i, j \in 1..Cardinality(S) : f[i] = f[j] => i = j}

\* find_crud_bases, with the set trailing_slash_bases iterated in the given
\* order: the bases that have all five operations
find_crud_bases(doc, order) ==
    LET IsCrudBase(p) ==
            /\ last_literal_segment(p) # ""
            /\ HasOperation(doc, p, "GET") /\ HasOperation(doc, p, "POST")
            /\ HasOperation(doc, IdPath(p), "GET")
            /\ HasOperation(doc, IdPath(p), "PUT")
            /\ HasOperation(doc, IdPath(p), "DELETE")
    IN  SelectSeq(order, IsCrudBase)

\* any(p == base or p.startswith(base) for base in crud_set)
UnderCrudBase(p, crud) == \E k \in 1..Len(crud) : StartsWith(p, crud[k])

\* the schema name the list operation of a base answers with ("" if none)
ListSchema(doc, base) ==
    LET i == CHOOSE j \in 1..Len(doc) : doc[j].path = base /\ doc[j].method = "GET"
    IN  doc[i].schema

\* node[leaf] = {"kind": "crud", ...} under ensure(segs[:-1])
CrudLeaf(doc, base) ==
    LET resource   == base.segs[Len(base.segs)]
        resp_model == ListSchema(doc, base)
        leaf == IF resp_model # "" /\ Snake(resp_model) # Snake(resource)
                THEN Snake(resp_model) ELSE resource
    IN  [key |-> Append(SubSeq(base.segs, 1, Len(base.segs) - 1), leaf),
         kind |-> "crud", method |-> "", path |-> base]

\* literals[-1] if literals else "op"
LastLiteral(p) ==
    LET IsLiteral(seg) == ~IsParamSegment(seg)
        literals == SelectSeq(p.segs, IsLiteral)
    IN  IF literals # <<>> THEN literals[Len(literals)] ELSE "op"

\* node[func_name] = {"kind": "endpoint", ...} under ensure(parent_ns)
EndpointLeaf(op) ==
    LET func_name == IF op.summary # "" THEN Snake(op.summary)
                     ELSE Snake(LastLiteral(op.path))
        segs      == op.path.segs
        parent_ns == IF segs # <<>> /\ segs[Len(segs)] = func_name
                     THEN SubSeq(segs, 1, Len(segs) - 1) ELSE segs
    IN  [key |-> Append(parent_ns, func_name),
         kind |-> "endpoint", method |-> op.method, path |-> op.path]

IsPrefix(a, b) == Len(a) <= Len(b) /\ SubSeq(b, 1, Len(a)) = a

RECURSIVE Inserted(_, _)
\* the leaves of the tree after the assignments node[name] = leaf, in order:
\* an assignment replaces what the key held, a leaf or a whole namespace
Inserted(tree, leaves) ==
    IF leaves = <<>> THEN tree
    ELSE Inserted({e \in tree : ~IsPrefix(Head(leaves).key, e.key)} \cup {Head(leaves)},
                  Tail(leaves))

\* emit_node: keys sorted at every level, so the text is fixed by the set
\* of leaves; a leaf stored inside another leaf's dict is not emitted
emit_node(tree) ==
    {e \in tree : ~\E f \in tree : f.key # e.key /\ IsPrefix(f.key, e.key)}

\* build_facade: the assignments it makes, in order, and the emitted leaves
build_facade(doc, order) ==
    LET crud_bases == find_crud_bases(doc, order)
        Kept(op)   == ~UnderCrudBase(op.path, crud_bases)
        kept       == SelectSeq(doc, Kept)
        leaves     == [k \in 1..Len(crud_bases) |-> CrudLeaf(doc, crud_bases[k])]
                      \o [k \in 1..Len(kept) |-> EndpointLeaf(kept[k])]
    IN  [assigned |-> leaves, text |-> emit_node(Inserted({}, leaves))]

\* pick_model_base, on names of one word
pick_model_base(schema_base, resource_seg) ==
    IF schema_base # "" THEN schema_base ELSE Pascal(resource_seg)

\* build_models: the aliases of the CRUD bases in the order find_crud_bases
\* returned them, then those of the other operations in document order
build_models(doc, order) ==
    LET crud_bases == find_crud_bases(doc, order)
        Kept(op)   == ~UnderCrudBase(op.path, crud_bases)
        kept       == SelectSeq(doc, Kept)
    IN  [k \in 1..Len(crud_bases) |->
            [alias |-> pick_model_base(ListSchema(doc, crud_bases[k]),
                                       crud_bases[k].segs[Len(crud_bases[k].segs)]),
             method |-> "", path |-> crud_bases[k]]]
        \o [k \in 1..Len(kept) |->
            [alias |-> Pascal(LastLiteral(kept[k].path)),
             method |-> kept[k].method, path |-> kept[k].path]]

InitFacade ==
    /\ \E chosen \in SUBSET (1..Len(Groups)) :
        /\ Cardinality(chosen) <= MaxGroups
        /\ openapi = Flatten([g \in 1..Len(Groups) |->
                                IF g \in chosen THEN Groups[g] ELSE <<>>])
    /\ emitted = <<>>

FacadeIdle ==
    /\ openapi = <<>>
    /\ emitted = <<>>

\* one run of the exporter on the document: api.ts and models.ts; Python
\* fixes no iteration order for a set of strings, each run has its own
ExportFacade(order) ==
    /\ Len(emitted) < MaxExports
    /\ emitted' = Append(emitted,
                         [facade |-> build_facade(openapi, order),
                          models |-> build_models(openapi, order)])
    /\ UNCHANGED <<openapi, resolveVars, crudVars, djangoVars, pathVars, exportVars,
                   lifespanVars>>

NextFacade == \E order \in Orders(TrailingSlashBases(openapi)) : ExportFacade(order)

-----------------------------------------------------------------------------
(* Specifications *)

ToolsIdle == DjangoIdle /\ PathIdle /\ ExportIdle /\ LifespanIdle /\ FacadeIdle

\* no request is served while the composition is studied, and the reverse
CrudIdle ==
    /\ variant = "flask"
    /\ store = <<>>
    /\ nextId = 1
    /\ resp = NoRequest
    /\ schemas = NoSchemas
    /\ session = NoSession
    /\ created = <<>>

ResolveIdle ==
    /\ cfg = "demo"
    /\ endpointsAttrs = [n \in DOMAIN Configs[cfg] |-> Configs[cfg][n].endpoints]
    /\ cached = [n \in DOMAIN Configs[cfg] |-> Unset]
    /\ blueprint = [n \in DOMAIN Configs[cfg] |-> NoBlueprint]
    /\ nodeDb = [n \in DOMAIN Configs[cfg] |-> "None"]
    /\ clsDb = <<>>
    /\ resolveCount = [n \in DOMAIN Configs[cfg] |-> 0]
    /\ resLog = [n \in DOMAIN Configs[cfg] |-> <<>>]
    /\ pc = "idle"
    /\ bindArgs = [db |-> "None", url_prefix |-> <<>>]
    /\ bindLog = <<>>
    /\ asgiRouter = NoRouter
    /\ err = ""
    /\ ops = 0

\* resolution, db binding and blueprint building of a composition tree
Init == InitResolve /\ CrudIdle /\ ToolsIdle

Next == NextResolve

Spec == Init /\ [][Next]_vars

\* requests served by the synthesized CRUD handlers
CrudInit == ResolveIdle /\ InitCrud /\ ToolsIdle

SpecCrud == CrudInit /\ [][NextCrud]_vars

\* the Django edition's URL configuration
InitDjangoSpec ==
    ResolveIdle /\ CrudIdle /\ InitDjango /\ PathIdle /\ ExportIdle /\ LifespanIdle
    /\ FacadeIdle

\* path translation between the two editions
InitPathSpec ==
    ResolveIdle /\ CrudIdle /\ DjangoIdle /\ InitPath /\ ExportIdle /\ LifespanIdle
    /\ FacadeIdle

SpecPath == InitPathSpec /\ [][NextPath]_vars

\* runs of the exporter on one output directory
InitExportSpec ==
    ResolveIdle /\ CrudIdle /\ DjangoIdle /\ PathIdle /\ InitExport /\ LifespanIdle
    /\ FacadeIdle

SpecExport == InitExportSpec /\ [][NextExport]_vars

\* the startup sequence of the application
InitLifespanSpec ==
    ResolveIdle /\ CrudIdle /\ DjangoIdle /\ PathIdle /\ ExportIdle /\ InitLifespan
    /\ FacadeIdle

SpecLifespan == InitLifespanSpec /\ [][NextLifespan]_vars

\* runs of build_facade and build_models on one OpenAPI document
InitFacadeSpec ==
    ResolveIdle /\ CrudIdle /\ DjangoIdle /\ PathIdle /\ ExportIdle /\ LifespanIdle
    /\ InitFacade

SpecFacade == InitFacadeSpec /\ [][NextFacade]_vars

SpecDjango == InitDjangoSpec /\ [][NextDjango]_vars

-----------------------------------------------------------------------------
(* Properties of resolution, binding and building (specification Spec) *)

\* what a route table says of one entry: its name, method, pattern and the
\* identity of its handler class
EntryView(e) == <<e[1], e[2].method, e[2].pattern, e[2].uid>>

TableView(eps) == [i \in 1..Len(eps) |-> EntryView(eps[i])]

\* a registered table without what the url_prefix argument of bind decides
BoundView(routes) ==
    [i \in 1..Len(routes) |->
        <<routes[i].owner, routes[i].attr, routes[i].method, routes[i].rule,
          routes[i].target>>]

\* C1: resolving a node twice with no declaration change returns the same
\* ordered route table both times (same length, names, methods, patterns and
\* handler identity), for get_endpoints(fresh=True) and for bind
ResolutionIdempotent ==
    /\ \A n \in Nodes : \A i, j \in 1..Len(resLog[n]) :
            TableView(resLog[n][i]) = TableView(resLog[n][j])
    /\ \A i, j \in 1..Len(bindLog) : BoundView(bindLog[i]) = BoundView(bindLog[j])

\* the (method, pattern) the contract gives an action of a model of slug S
ContractMethod(action) ==
    CASE action = "list"   -> "GET"
      [] action = "get"    -> "GET"
      [] action = "create" -> "POST"
      [] action = "update" -> "PUT"
      [] action = "delete" -> "DELETE"

ContractPattern(action, S) ==
    IF action \in {"list", "create"} THEN <<"/", S, "/">>
    ELSE <<"/", S, "/", "<int:id>">>

ContractActions == {"list", "get", "create", "update", "delete"}

\* the entries of a table that belong to the model declared as model_name
EntriesOf(eps, model_name) ==
    {i \in 1..Len(eps) : \E a \in ContractActions : eps[i][1] = model_name \o "_" \o a}

\* the directives of node n on a model declared with a slug
SluggedDirectives(n) ==
    {i \in 1..Len(Decl(n).endpoints) :
        /\ StartsWithUnderscore(Decl(n).endpoints[i][1])
        /\ Has(Decl(n).models, StripUnderscore(Decl(n).endpoints[i][1]))
        /\ Lookup(Decl(n).models, StripUnderscore(Decl(n).endpoints[i][1])).meta = "ok"
        /\ Lookup(Decl(n).models, StripUnderscore(Decl(n).endpoints[i][1])).slug # ""}

\* C2: a directive _m = True on a model of slug S makes resolution yield
\* exactly five routes for the model, one per action, with the method and
\* the pattern of the contract's table
TrueDirectiveYieldsFiveRoutes ==
    \A n \in Nodes : \A r \in 1..Len(resLog[n]) : \A i \in SluggedDirectives(n) :
        LET m   == StripUnderscore(Decl(n).endpoints[i][1])
            S   == Lookup(Decl(n).models, m).slug
            eps == resLog[n][r]
        IN  Decl(n).endpoints[i][2] = ValTrue =>
                /\ Cardinality(EntriesOf(eps, m)) = 5
                /\ \A a \in ContractActions :
                    \E k \in EntriesOf(eps, m) :
                        /\ eps[k][1] = m \o "_" \o a
                        /\ eps[k][2].method = ContractMethod(a)
                        /\ eps[k][2].pattern = ContractPattern(a, S)

\* the value a directive map gives an action ("absent" when it has no such key)
MapValue(d, a) == IF Has(d, a) THEN Lookup(d, a).t ELSE "absent"

\* C3: in a per-action directive map, an action mapped to False has no route
\* and an action mapped to None, or absent, has a default synthesized handler
\* (in the blueprint edition and in the ASGI router)
DirectiveMapFalseExcludesNoneGenerates ==
    /\ \A n \in Nodes : \A r \in 1..Len(resLog[n]) : \A i \in SluggedDirectives(n) :
        LET m   == StripUnderscore(Decl(n).endpoints[i][1])
            v   == Decl(n).endpoints[i][2]
            eps == resLog[n][r]
        IN  v.t = "dict" =>
                \A a \in ContractActions :
                    /\ MapValue(v.d, a) = "false" =>
                            ~\E k \in 1..Len(eps) : eps[k][1] = m \o "_" \o a
                    /\ MapValue(v.d, a) \in {"none", "absent"} =>
                            \E k \in 1..Len(eps) :
                                /\ eps[k][1] = m \o "_" \o a
                                /\ eps[k][2].kind = "gen"
    /\ asgiRouter.built =>
        \A n \in Nodes : \A i \in SluggedDirectives(n) :
            LET v == Decl(n).endpoints[i][2]
            IN  v.t = "dict" =>
                    \A a \in ContractActions :
                        /\ MapValue(v.d, a) = "false" =>
                            ~\E k \in 1..Len(asgiRouter.routes) :
                                /\ asgiRouter.routes[k].owner = n
                                /\ asgiRouter.routes[k].attr = Decl(n).endpoints[i][1]
                                /\ asgiRouter.routes[k].action = a
                        /\ MapValue(v.d, a) \in {"none", "absent"} =>
                            \E k \in 1..Len(asgiRouter.routes) :
                                /\ asgiRouter.routes[k].owner = n
                                /\ asgiRouter.routes[k].attr = Decl(n).endpoints[i][1]
                                /\ asgiRouter.routes[k].action = a

RECURSIVE EdgePaths(_, _, _)
\* the ways down from node "from" to node n in the declared tree, each as the
\* concatenation of "/" + child attribute name over its edges
EdgePaths(from, n, depth) ==
    (IF from = n THEN {<<>>} ELSE {})
    \cup (IF depth = 0 THEN {}
          ELSE UNION {
                {<<"/", Decl(from).wapps[i][1]>> \o e :
                    e \in EdgePaths(Decl(from).wapps[i][2], n, depth - 1)} :
                i \in 1..Len(Decl(from).wapps)})

\* the pattern an ASGI route has inside its own node
AsgiOwnPattern(r) ==
    IF r.kind = "crud"
    THEN flask_to_fastapi_path(
            ContractPattern(r.action,
                Lookup(Decl(r.owner).models, StripUnderscore(r.attr)).slug))
    ELSE flask_to_fastapi_path(Lookup(Decl(r.owner).endpoints, r.attr).c.pattern)

\* C8: each route of a nested node is served at "/" + child attribute name
\* for every edge from the root down to the node, followed by the endpoint's
\* own pattern (after the url_prefix bind was given, in the blueprint edition,
\* where a path is read as the router reads it, repeated slashes merged)
NestedRoutePathFollowsEdges ==
    /\ \A k \in 1..Len(blueprint[Root].routes) :
        LET r == blueprint[Root].routes[k]
        IN  \E e \in EdgePaths(Root, r.owner, MaxDepth) :
                /\ r.api_path = CollapseSlashes(
                                    RStripSlash(bindArgs.url_prefix) \o e \o r.rule)
                /\ Flatten(Tail(r.prefixes)) = e
                /\ Head(r.prefixes) = bindArgs.url_prefix
    /\ \A k \in 1..Len(asgiRouter.routes) :
        LET r == asgiRouter.routes[k]
        IN  \E e \in EdgePaths(Root, r.owner, MaxDepth) :
                r.path = e \o AsgiOwnPattern(r)

\* root.child.leaf is built, and the leaf's model of slug baz is served under
\* /child/leaf/baz in both editions
LeafServedUnderChildLeaf ==
    /\ cfg = "nested"
    /\ \E k \in 1..Len(blueprint[Root].routes) :
        /\ blueprint[Root].routes[k].owner = "Leaf"
        /\ blueprint[Root].routes[k].api_path =
                <<"/", "api", "/", "child", "/", "leaf", "/", "baz", "/", "<int:id>">>
    /\ \E k \in 1..Len(asgiRouter.routes) :
        /\ asgiRouter.routes[k].owner = "Leaf"
        /\ asgiRouter.routes[k].path =
                <<"/", "child", "/", "leaf", "/", "baz", "/", "{id:int}">>

\* C9: no two routes registered by one build of the tree have the same route
\* identifier (blueprint names and endpoint name)
RouteIdentifiersUnique ==
    \A b \in 1..Len(bindLog) : \A i, j \in 1..Len(bindLog[b]) :
        (/\ bindLog[b][i].bp = bindLog[b][j].bp
         /\ bindLog[b][i].endpoint = bindLog[b][j].endpoint) => i = j

\* the routes of a registered table, as a set
RouteSet(routes) ==
    {<<routes[i].owner, routes[i].method, routes[i].rule>> : i \in 1..Len(routes)}

\* C10: when a second bind starts to rebuild an already-built tree, no node
\* keeps _cached_endpoints, _blueprint or synthesized {model}_{action}
\* attributes from the first bind, and every bind registers the same route set
SecondBindStartsFromResetState ==
    /\ (pc = "generate" /\ bindLog # <<>>) =>
            \A n \in Nodes :
                /\ ~cached[n].set
                /\ ~blueprint[n].set
                /\ endpointsAttrs[n] = Decl(n).endpoints
    /\ \A i, j \in 1..Len(bindLog) : RouteSet(bindLog[i]) = RouteSet(bindLog[j])

-----------------------------------------------------------------------------
(* Properties of the synthesized handlers (specification SpecCrud) *)

\* the last request was a get, update or delete whose lookup found no record
LookupFoundNothing ==
    /\ resp.op \in {"get", "update", "delete"}
    /\ resp.id \notin DOMAIN resp.before
    /\ resp.fail # "get"

\* C4: get, update and delete with an identifier that resolves to no record
\* answer 404 and raise no unhandled error, in both editions
NotFoundAnswers404 ==
    LookupFoundNothing => (resp.out.status = 404 /\ ~resp.out.escaped)

\* C5: a get, update or delete request with a nonexistent identifier leaves
\* the store as it was and issues no commit, whatever its body
MissingIdLeavesStoreUnchanged ==
    (resp.op \in {"get", "update", "delete"} /\ resp.id \notin DOMAIN resp.before) =>
        /\ store = resp.before
        /\ resp.out.commits = 0

\* an update with a body that names a column is sent for an id that is not
\* in a non-empty table
UpdateOfMissingIdServed ==
    /\ resp.op = "update"
    /\ resp.id \notin DOMAIN resp.before
    /\ DOMAIN resp.before # {}
    /\ Has(resp.data, "name")
    /\ resp.fail = "none"
    /\ resp.out.status = 404

DataLayerErrors == {"IntegrityError", "OperationalError"}

\* C6: a data-layer failure during create, update or delete is caught, the
\* transaction is rolled back and the answer is a 400-class error mapping;
\* nothing escapes to the host framework and no 500 is reported
DataLayerFailureAnswers400 ==
    (resp.op \in {"create", "update", "delete"} /\ resp.out.exc \in DataLayerErrors) =>
        /\ ~resp.out.escaped
        /\ ~resp.out.pending
        /\ resp.out.status \in 400..499
        /\ resp.out.body = "error"

\* C7: a successful create, update or delete performs exactly one commit; one
\* that fails (not found, invalid data, data-layer error) performs none
OneCommitOnSuccessNoneOnFailure ==
    resp.op \in {"create", "update", "delete"} =>
        IF resp.out.status \in 200..299 /\ resp.out.exc = "" /\ ~LookupFoundNothing
        THEN resp.out.commits = 1
        ELSE resp.out.commits = 0

-----------------------------------------------------------------------------
(* Configuration errors and the order of resolution (specification Spec) *)

\* the model has no metadata, metadata without slug, or a slug None or empty
NoResolvableSlug(model) == model.meta # "ok" \/ model.slug = ""

\* node n has a CRUD directive on a declared model without a resolvable slug
HasSluglessDirective(n) ==
    \E i \in 1..Len(Decl(n).endpoints) :
        /\ StartsWithUnderscore(Decl(n).endpoints[i][1])
        /\ Has(Decl(n).models, StripUnderscore(Decl(n).endpoints[i][1]))
        /\ NoResolvableSlug(
                Lookup(Decl(n).models, StripUnderscore(Decl(n).endpoints[i][1])))

\* C11: a directive on a model without a resolvable slug makes resolution
\* fail when it runs: such a node never has a resolved list, none of its
\* routes is registered and no router is built from it
SluglessModelFailsResolution ==
    \A n \in Nodes : HasSluglessDirective(n) =>
        /\ resLog[n] = <<>>
        /\ ~cached[n].set
        /\ \A b \in 1..Len(bindLog) : \A k \in 1..Len(bindLog[b]) :
                bindLog[b][k].owner # n
        /\ EdgePaths(Root, n, MaxDepth) # {} => ~asgiRouter.built

\* the directives of node n whose name is no key of its model mapping
UnknownDirectives(n) ==
    {i \in 1..Len(Decl(n).endpoints) :
        /\ StartsWithUnderscore(Decl(n).endpoints[i][1])
        /\ ~Has(Decl(n).models, StripUnderscore(Decl(n).endpoints[i][1]))}

\* a resolved table without the identity of the classes, which names the node
NamedView(eps) ==
    [k \in 1..Len(eps) |->
        <<eps[k][1], eps[k][2].kind, eps[k][2].name, eps[k][2].method,
          eps[k][2].pattern>>]

RECURSIVE RoutesOwnedBy(_, _)
\* the ASGI routes of node n, without the prefix of the edge that leads to it
RoutesOwnedBy(routes, n) ==
    IF routes = <<>> THEN <<>>
    ELSE (IF Head(routes).owner = n
          THEN << <<Head(routes).kind, Head(routes).attr, Head(routes).action,
                    Head(routes).method, Tail(Tail(Head(routes).path))>> >>
          ELSE <<>>)
         \o RoutesOwnedBy(Tail(routes), n)

\* C12: a directive _X whose X is no key of the node's model mapping is
\* ignored: resolution raises nothing, derives no route from it, and returns
\* the table of the same declaration without the directive
UnknownDirectiveIgnored ==
    /\ \A n \in Nodes : \A i \in UnknownDirectives(n) :
        LET x == StripUnderscore(Decl(n).endpoints[i][1])
        IN  /\ \A r \in 1..Len(resLog[n]) : \A k \in 1..Len(resLog[n][r]) :
                \A a \in ContractActions : resLog[n][r][k][1] # x \o "_" \o a
            /\ \A k \in 1..Len(asgiRouter.routes) :
                ~(/\ asgiRouter.routes[k].owner = n
                  /\ asgiRouter.routes[k].attr = Decl(n).endpoints[i][1])
    /\ cfg = "unknown" =>
        /\ err = ""
        /\ \A r \in DOMAIN resLog["WithUnknown"] \cap DOMAIN resLog["Without"] :
                NamedView(resLog["WithUnknown"][r]) = NamedView(resLog["Without"][r])
        /\ RoutesOwnedBy(asgiRouter.routes, "WithUnknown")
                = RoutesOwnedBy(asgiRouter.routes, "Without")

\* the node with the unknown directive and its twin without it are both
\* resolved and both have their routes in the ASGI router
UnknownDirectiveResolved ==
    /\ cfg = "unknown"
    /\ resLog["WithUnknown"] # <<>>
    /\ resLog["Without"] # <<>>
    /\ Len(resLog["WithUnknown"][1]) = 6
    /\ asgiRouter.built
    /\ Len(RoutesOwnedBy(asgiRouter.routes, "WithUnknown")) = 6

\* the indices of a resolved table that hold the entry of action a of model m
EntriesOfAction(eps, m, a) == {k \in 1..Len(eps) : eps[k][1] = m \o "_" \o a}

\* the ASGI routes of action a that the directive attr of node n gave
AsgiRoutesOfAction(n, attr, a) ==
    {k \in 1..Len(asgiRouter.routes) :
        /\ asgiRouter.routes[k].owner = n
        /\ asgiRouter.routes[k].attr = attr
        /\ asgiRouter.routes[k].action = a}

\* C13: in a directive map, an action given an explicit handler class has
\* exactly one route, whose target is that class and no synthesized one;
\* the actions mapped to True still have their synthesized handler
OverrideClassIsTheRoute ==
    \A n \in Nodes : \A i \in SluggedDirectives(n) :
        LET attr == Decl(n).endpoints[i][1]
            m    == StripUnderscore(attr)
            v    == Decl(n).endpoints[i][2]
        IN  v.t = "dict" => \A a \in ContractActions :
            /\ MapValue(v.d, a) = "cls" =>
                /\ \A r \in 1..Len(resLog[n]) :
                    /\ Cardinality(EntriesOfAction(resLog[n][r], m, a)) = 1
                    /\ \A k \in EntriesOfAction(resLog[n][r], m, a) :
                            resLog[n][r][k][2] = Lookup(v.d, a).c
                /\ asgiRouter.built =>
                    /\ Cardinality(AsgiRoutesOfAction(n, attr, a)) = 1
                    /\ \A k \in AsgiRoutesOfAction(n, attr, a) :
                            asgiRouter.routes[k].target = <<Lookup(v.d, a).c.name, "">>
            /\ MapValue(v.d, a) = "true" =>
                /\ \A r \in 1..Len(resLog[n]) :
                    \E k \in EntriesOfAction(resLog[n][r], m, a) :
                        resLog[n][r][k][2].kind = "gen"
                /\ asgiRouter.built => AsgiRoutesOfAction(n, attr, a) # {}

\* the explicit endpoint declarations of node n, in declaration order
DeclaredExplicit(n) ==
    LET IsEndpointClass(kv) == kv[2].t = "cls" /\ kv[2].c.isEndpoint
    IN  SelectSeq(Decl(n).endpoints, IsEndpointClass)

\* the name is one that a CRUD directive of node n gives a derived endpoint
IsDerivedName(n, name) ==
    \E i \in 1..Len(Decl(n).endpoints) : \E a \in ContractActions :
        /\ StartsWithUnderscore(Decl(n).endpoints[i][1])
        /\ name = StripUnderscore(Decl(n).endpoints[i][1]) \o "_" \o a

\* C14: a resolved list holds the node's explicit declarations first, in
\* declaration order and as declared, then the CRUD-derived endpoints, and
\* the routes of a node are registered in that order (explicit ones first)
ExplicitFirstThenDerived ==
    /\ \A n \in Nodes : \A r \in 1..Len(resLog[n]) :
        LET ex  == DeclaredExplicit(n)
            eps == resLog[n][r]
        IN  /\ Len(eps) >= Len(ex)
            /\ \A k \in 1..Len(ex) : eps[k] = <<ex[k][1], ex[k][2].c>>
            /\ \A k \in (Len(ex) + 1)..Len(eps) : IsDerivedName(n, eps[k][1])
    /\ \A b \in 1..Len(bindLog) : \A i, j \in 1..Len(bindLog[b]) :
        (/\ i < j
         /\ bindLog[b][i].owner = bindLog[b][j].owner
         /\ IsDerivedName(bindLog[b][i].owner, bindLog[b][i].attr))
            => IsDerivedName(bindLog[b][j].owner, bindLog[b][j].attr)
    /\ \A i, j \in 1..Len(asgiRouter.routes) :
        (/\ i < j
         /\ asgiRouter.routes[i].owner = asgiRouter.routes[j].owner
         /\ asgiRouter.routes[i].kind = "crud")
            => asgiRouter.routes[j].kind = "crud"

-----------------------------------------------------------------------------
(* Properties of the stored values (specification SpecCrud) *)

\* the value a JSON object gives a column
SentValue(data, k) == Lookup(data, k)

\* C15: a get of a record that create returned, with no update or delete
\* request on its id in between, answers for every field that the create
\* request sent the value that was sent
CreateThenGetRoundTrip ==
    (/\ resp.op = "get"
     /\ resp.fail = "none"
     /\ resp.id \in DOMAIN created) =>
        /\ resp.out.status = 200
        /\ resp.value.id = resp.id
        /\ Has(created[resp.id], "name") =>
                resp.value.name = SentValue(created[resp.id], "name")
        /\ Has(created[resp.id], "description") =>
                resp.value.description = SentValue(created[resp.id], "description")

\* a record created with a name and a description is fetched while another
\* record of the table has been updated
CreatedRecordFetched ==
    /\ resp.op = "get"
    /\ resp.out.status = 200
    /\ resp.id \in DOMAIN created
    /\ Has(created[resp.id], "description")
    /\ resp.value.description = "d"
    /\ resp.id = 2
    /\ 1 \in DOMAIN store
    /\ store[1].name = "b"

-----------------------------------------------------------------------------
(* Properties of the derived shapes (specification SpecCrud) *)

\* the column is a primary key that the database numbers by itself
AutoIncrementingKey(col) ==
    /\ col.primary_key
    /\ col.type = "int"
    /\ col.autoincrement \in {"auto", "true"}
    /\ ~col.default

\* the fields of a shape that come from the column
FieldsOf(shape, col) == {k \in 1..Len(shape) : shape[k].name = col.name}

\* C16: the create shape has no auto-incrementing primary key, has one field
\* for every column that is no primary key, and a field of it is required
\* exactly when its column is non-nullable, has no default and is no
\* primary key
CreateShapeRequiresNonNullable ==
    schemas.built =>
        LET cols == schemas.table
        IN  /\ \A i \in 1..Len(cols) :
                /\ AutoIncrementingKey(cols[i]) => FieldsOf(schemas.create, cols[i]) = {}
                /\ ~cols[i].primary_key =>
                        Cardinality(FieldsOf(schemas.create, cols[i])) = 1
                /\ \A k \in FieldsOf(schemas.create, cols[i]) :
                        schemas.create[k].required <=>
                            (/\ ~cols[i].nullable
                             /\ ~cols[i].default
                             /\ ~cols[i].server_default
                             /\ ~cols[i].primary_key)
            /\ \A k \in 1..Len(schemas.create) :
                    \E i \in 1..Len(cols) : cols[i].name = schemas.create[k].name

\* the table with the auto-incrementing key id and the non-nullable name:
\* the create shape requires name and has no id
FooCreateShapeDerived ==
    /\ schemas.built
    /\ schemas.table = FooTable
    /\ schemas.create = << Field("name", "str", FALSE, TRUE),
                           Field("description", "str", FALSE, FALSE) >>

\* C17: the out shape has every column of the table, in column order, and a
\* column is required in it exactly when it is non-nullable and has neither
\* a client nor a server default
OutShapeRequiresNonNullable ==
    schemas.built =>
        /\ Len(schemas.out) = Len(schemas.table)
        /\ \A i \in 1..Len(schemas.table) :
            /\ schemas.out[i].name = schemas.table[i].name
            /\ schemas.out[i].required <=>
                    (/\ ~schemas.table[i].nullable
                     /\ ~schemas.table[i].default
                     /\ ~schemas.table[i].server_default)

\* C18: the update shape makes every column an optional field, and a
\* committed update assigns the fields of the body and leaves every other
\* field and every other record as stored
UpdateIsPartial ==
    /\ schemas.built =>
        /\ Len(schemas.update) = Len(schemas.table)
        /\ \A i \in 1..Len(schemas.table) :
            /\ schemas.update[i].name = schemas.table[i].name
            /\ schemas.update[i].optional
            /\ ~schemas.update[i].required
    /\ (resp.op = "update" /\ resp.out.commits = 1) =>
        /\ DOMAIN store = DOMAIN resp.before
        /\ \A i \in DOMAIN store :
            IF i # resp.id THEN store[i] = resp.before[i]
            ELSE /\ store[i].name =
                        IF Has(resp.data, "name") THEN Lookup(resp.data, "name")
                        ELSE resp.before[i].name
                 /\ store[i].description =
                        IF Has(resp.data, "description")
                        THEN Lookup(resp.data, "description")
                        ELSE resp.before[i].description

\* the router of Foo, whose name is non-nullable, serves an update whose body
\* holds the description alone: the name stays
DescriptionAloneUpdated ==
    /\ RouterServesFoo
    /\ ~schemas.update[2].required
    /\ resp.op = "update"
    /\ resp.out.status = 200
    /\ ~Has(resp.data, "name")
    /\ Has(resp.data, "description")
    /\ resp.before[resp.id].description = NULL
    /\ store[resp.id] = [name |-> "a", description |-> "d"]

-----------------------------------------------------------------------------
(* Properties of the request boundary (specification SpecCrud) *)

\* C19: an exception raised inside the handle() of an explicit endpoint is
\* caught at the request boundary of the package and answered with a
\* 500-class response; it does not reach the host framework
HandleExceptionAnswered500 ==
    (resp.op = "explicit" /\ resp.out.exc \in HandleExceptions) =>
        /\ ~resp.out.escaped
        /\ resp.out.status \in 500..599

\* the record a create, update or delete request is about
TargetOf(r) == IF r.op = "create" THEN r.out.nextId - 1 ELSE r.id

-----------------------------------------------------------------------------
(* Wapp.bind: the order of its steps *)

\* the nodes of the tree under the bound class
TreeNodes == {n \in Nodes : EdgePaths(Root, n, MaxDepth) # {}}

\* every class of every node's resolved list carries the db handle db
AllBoundTo(cdb, ch, db) ==
    \A n \in TreeNodes :
        /\ ch[n].set
        /\ \A i \in 1..Len(ch[n].eps) : ClsDbOf(cdb, ch[n].eps[i][2].uid) = db

\* C21: bind synthesizes the endpoints of every node, then binds the db
\* handle, then builds and registers the blueprint: when the routes are
\* registered every class of every node's resolved list, root and nested,
\* explicit and synthesized, has db equal to the db_instance bind was given,
\* and every route points to the class its node's resolved list holds
RoutesRegisteredAfterDbBound ==
    [][/\ (pc = "bind_db" /\ pc' = "build") =>
            /\ \A n \in TreeNodes : cached[n].set /\ cached'[n] = cached[n]
            /\ AllBoundTo(clsDb', cached', bindArgs.db)
       /\ (pc = "build" /\ Len(bindLog') > Len(bindLog)) =>
            /\ AllBoundTo(clsDb, cached, bindArgs.db)
            /\ AllBoundTo(clsDb', cached', bindArgs.db)
            /\ \A k \in 1..Len(bindLog'[Len(bindLog')]) :
                LET r == bindLog'[Len(bindLog')][k]
                IN  \E i \in 1..Len(cached'[r.owner].eps) :
                        /\ cached'[r.owner].eps[i][1] = r.attr
                        /\ cached'[r.owner].eps[i][2].uid = r.target
                        /\ ClsDbOf(clsDb', r.target) = bindArgs.db]_vars

\* the tree root.child.leaf has been bound twice, the second time to db2, and
\* the second bind has registered a route of the leaf whose class carries db2
LeafRouteBoundToSecondDb ==
    /\ cfg = "nested"
    /\ pc = "idle"
    /\ Len(bindLog) = 2
    /\ bindArgs.db = "db2"
    /\ \E k \in 1..Len(bindLog[2]) :
        /\ bindLog[2][k].owner = "Leaf"
        /\ ClsDbOf(clsDb, bindLog[2][k].target) = "db2"

-----------------------------------------------------------------------------
(* Django edition: the URL segment of a model *)

\* C22: the segment Wapp.urlpatterns registers a model decorated with
\* @wapp(ModelMetadata(slug=S)) under is S, and the lower-cased class name
\* is the segment only of a model that carries no metadata
DeclaredSlugIsTheSegment ==
    djPatterns.built =>
        \A k \in 1..Len(djPatterns.patterns) :
            \A j \in 1..Len(djPatterns.patterns[k].registry) :
                LET reg == djPatterns.patterns[k].registry[j]
                IN  /\ reg.model.decl \notin {"undecorated", "None"} =>
                            reg.slug = reg.model.decl
                    /\ reg.model.decl = "undecorated" =>
                            reg.slug = Lower(reg.model.name)

-----------------------------------------------------------------------------
(* Path translation *)

\* the Python type Flask's converter hands to the view, as _TYPE_MAP names it
ConverterType(conv) ==
    CASE conv = "int"   -> "int"
      [] conv = "float" -> "float"
      [] OTHER          -> "str"

\* the parameters of a Flask-style pattern, in order, as (name, type)
FlaskParams(p) ==
    LET IsParam(piece) == piece.kind = "angle"
        found == SelectSeq(p, IsParam)
    IN  [i \in 1..Len(found) |-> <<found[i].name, ConverterType(found[i].conv)>>]

\* C23: flask_to_fastapi_path turns every <conv:name> and <name> parameter
\* into a {...} parameter of the same name, keeps the literal pieces, leaves
\* no < or > in the result, and _parse_path_params reads in the result the
\* same parameter names in the same order with the matching type
EveryParameterTranslated ==
    fastapiPath.done =>
        /\ Len(fastapiPath.path) = Len(flaskPath)
        /\ \A i \in 1..Len(flaskPath) :
            /\ flaskPath[i].kind = "literal" => fastapiPath.path[i] = flaskPath[i]
            /\ flaskPath[i].kind = "angle" =>
                /\ fastapiPath.path[i].kind = "brace"
                /\ fastapiPath.path[i].name = flaskPath[i].name
        /\ \A i \in 1..Len(fastapiPath.path) : fastapiPath.path[i].kind # "angle"
        /\ fastapiPath.params = FlaskParams(flaskPath)

-----------------------------------------------------------------------------
(* The exporter's artifacts *)

\* C24: a successful run of main leaves openapi.json, the type bindings,
\* client.ts, api.ts and models.ts in --out; a client.ts that was there is
\* left as it was unless --overwrite-client is given, and the other four are
\* rewritten from the document of this run
SuccessfulRunLeavesArtifacts ==
    [][(exportRun'.n = exportRun.n + 1 /\ exportRun'.outcome = "ok") =>
        /\ outDir'["openapi.json"] = Text("json.dumps", exportRun'.doc)
        /\ outDir'["openapi.ts"] = Text("openapi-typescript", exportRun'.doc)
        /\ outDir'["api.ts"] = Text("build_facade", exportRun'.doc)
        /\ outDir'["models.ts"] = Text("build_models", exportRun'.doc)
        /\ outDir'["client.ts"] # Absent
        /\ (outDir["client.ts"] # Absent /\ ~exportRun'.overwrite_client) =>
                outDir'["client.ts"] = outDir["client.ts"]
        /\ exportRun'.overwrite_client =>
                outDir'["client.ts"] = Text("CLIENT_TS", "")]_vars

\* a second successful run, on another document and without
\* --overwrite-client, has kept the client.ts the user edited after the first
\* and rewritten the four other files
EditedClientKeptBySecondRun ==
    /\ exportRun.n = 2
    /\ exportRun.outcome = "ok"
    /\ ~exportRun.overwrite_client
    /\ exportRun.doc = "docB"
    /\ exportRun.before["client.ts"] = Foreign
    /\ exportRun.before["api.ts"] = Text("build_facade", "docA")
    /\ outDir["client.ts"] = Foreign
    /\ outDir["api.ts"] = Text("build_facade", "docB")

-----------------------------------------------------------------------------
(* A directive given as a list of action names *)

\* C25: a directive given as a list of action names, as the demo's
\* _bar = ["list", "get"], yields a synthesized route for each listed action
\* and none for the others, in the resolved list and among the registered
\* routes
ListDirectiveYieldsListedActions ==
    \A n \in Nodes : \A i \in SluggedDirectives(n) :
        LET attr   == Decl(n).endpoints[i][1]
            m      == StripUnderscore(attr)
            v      == Decl(n).endpoints[i][2]
            listed == {v.l[j] : j \in 1..Len(v.l)}
        IN  v.t = "list" =>
                \A a \in ContractActions :
                    /\ \A b \in 1..Len(resLog[n]) :
                        (EntriesOfAction(resLog[n][b], m, a) # {}) <=> (a \in listed)
                    /\ \A b \in 1..Len(bindLog) :
                        (\E k \in 1..Len(bindLog[b]) :
                            /\ bindLog[b][k].owner = n
                            /\ bindLog[b][k].attr = m \o "_" \o a) <=> (a \in listed)
                    /\ asgiRouter.built =>
                        ((AsgiRoutesOfAction(n, attr, a) # {}) <=> (a \in listed))

-----------------------------------------------------------------------------
(* Resolution and the attributes the user declared *)

\* C26: resolution only adds attributes to a node's Endpoints container:
\* every attribute the user declared keeps its declared value (so next to
\* _foo = True an explicit class declared as foo_get is still the value of
\* Endpoints.foo_get), and no resolved list has two entries of one name
ResolutionKeepsDeclaredAttributes ==
    \A n \in Nodes :
        /\ \A i \in 1..Len(Decl(n).endpoints) :
            /\ Has(endpointsAttrs[n], Decl(n).endpoints[i][1])
            /\ Lookup(endpointsAttrs[n], Decl(n).endpoints[i][1]) = Decl(n).endpoints[i][2]
        /\ \A b \in 1..Len(resLog[n]) : \A i, j \in 1..Len(resLog[n][b]) :
            resLog[n][b][i][1] = resLog[n][b][j][1] => i = j

-----------------------------------------------------------------------------
(* Compositions in which a node is reachable from itself *)

\* C27: Wapp.bind and Wapp.build_router terminate for every declared
\* composition, a node listing itself as a child or two nodes listing each
\* other included: the recursion over children never runs out of stack
RecursionOverChildrenIsBounded == err # "RecursionError"

-----------------------------------------------------------------------------
(* The startup sequence *)

\* the migration commands, each ended with exit status 0
MigrationsDone ==
    [k \in 1..3 |-> [cmd |-> Commands[k], ending |-> "zero"]]

\* C28: the application reaches its yield only after upgrade head,
\* revision --autogenerate and upgrade head have each succeeded in that
\* order, or at once with no command run when AUTO_MIGRATE is 0, false or
\* False; a failing migration step prevents startup, and the export step,
\* however it ends, never does
StartupAfterMigrations ==
    /\ lifespan.pos = 5 =>
        IF SwitchedOff(environ.AUTO_MIGRATE) THEN lifespan.ran = <<>>
        ELSE /\ Len(lifespan.ran) >= 3
             /\ SubSeq(lifespan.ran, 1, 3) = MigrationsDone
    /\ (\E k \in 1..Len(lifespan.ran) :
            lifespan.ran[k].cmd # "export" /\ lifespan.ran[k].ending # "zero") =>
        lifespan.pos = 0
    /\ (\E k \in 1..Len(lifespan.ran) : lifespan.ran[k].cmd = "export") =>
        lifespan.pos = 5

\* the three migrations have succeeded, the exporter has exited non-zero,
\* and the application serves
ServingAfterFailedExport ==
    /\ lifespan.pos = 5
    /\ Len(lifespan.ran) = 4
    /\ SubSeq(lifespan.ran, 1, 3) = MigrationsDone
    /\ lifespan.ran[4] = [cmd |-> "export", ending |-> "nonzero"]

-----------------------------------------------------------------------------
(* The facade and the model aliases *)

\* the operation is one of the five functions of an emitted CRUD group, or
\* an emitted endpoint function of its own
ReachableIn(text, op) ==
    \E e \in text :
        \/ /\ e.kind = "endpoint"
           /\ e.method = op.method
           /\ e.path = op.path
        \/ /\ e.kind = "crud"
           /\ \/ op.path = e.path /\ op.method \in {"GET", "POST"}
              \/ op.path = IdPath(e.path) /\ op.method \in {"GET", "PUT", "DELETE"}

\* C29: every operation of the document is reachable in the facade, as one
\* of the five functions of a CRUD group or as its own endpoint function:
\* none is dropped, not one whose path merely starts with a CRUD base, and
\* no two operations are put under the same facade key
EveryOperationInFacade ==
    \A r \in 1..Len(emitted) :
        /\ \A i \in 1..Len(openapi) : ReachableIn(emitted[r].facade.text, openapi[i])
        /\ \A i, j \in 1..Len(emitted[r].facade.assigned) :
            emitted[r].facade.assigned[i].key = emitted[r].facade.assigned[j].key => i = j

\* C30: build_facade and build_models are functions of the document alone:
\* two runs on one document emit the same api.ts and the same models.ts,
\* whatever order the set of CRUD base paths is iterated in
TwoRunsEmitTheSameText ==
    \A r1, r2 \in 1..Len(emitted) :
        /\ emitted[r1].facade.text = emitted[r2].facade.text
        /\ emitted[r1].models = emitted[r2].models

=============================================================================
